---- MODULE Spec2Model ----
(***************************************************************************)
(* A model of the TemboPlus Go client: request validation, the HTTP        *)
(* transport adapter (makeRequest and the balance / statement calls), the  *)
(* webhook validator and the tolerant numeric decoder NullableFloat64.     *)
(*                                                                         *)
(* Conventions.                                                            *)
(*  - A Go string is a TLA+ string, except for the bytes handed to         *)
(*    encoding/json, which are sequences of one-character strings so that  *)
(*    they can be scanned.                                                 *)
(*  - A float64 is a tagged pair, see float64.                             *)
(*  - A JSON document is a tagged pair <<tag, payload>>, see JSON values.  *)
(***************************************************************************)
EXTENDS Integers, Sequences, FiniteSets, TLC

VARIABLES
    client,   \* the Client struct: baseURL, accountID, secretKey
    now,      \* the wall clock read by time.Now(), in nanoseconds
    pc,       \* where the current call stands: "idle", "inflight" (it waits
              \* in httpClient.Do), "reading" (in io.ReadAll) or "done"
    call,     \* the operation in progress and its argument
    wire,     \* the HTTP requests the current call handed to httpClient.Do
    reply,    \* the HTTP reply the current call received, if any
    ret,      \* what the call returned: the response value and the error
    input,    \* argument of the pure function being applied
    output    \* its result

vars == <<client, now, pc, call, wire, reply, ret, input, output>>

(***************************************************************************)
(* float64.  A finite value is <<"num", <<m, e>>>>, the decimal m * 10^e   *)
(* with m not divisible by 10 (zero is <<0, 0>>), and the decimal held is  *)
(* the shortest one that rounds to the float64, which is the one strconv   *)
(* writes for it.  A decimal of at most fifteen digits whose last digit    *)
(* is at 1e-323 or above is the shortest one of its float64; the denormals *)
(* written with digits below 1e-323 are brought to that form by            *)
(* RoundToFloat64.  Negative zero is a value of its own.                   *)
(***************************************************************************)
RECURSIVE Normalize(_, _)
Normalize(m, e) ==
    IF m = 0 THEN <<0, 0>>
    ELSE IF m % 10 = 0 THEN Normalize(m \div 10, e + 1)
    ELSE <<m, e>>

Num(n) == <<"num", Normalize(n, 0)>>
Dec(m, e) == <<"num", Normalize(m, e)>>
NegZero == <<"negzero", <<0, 0>>>>
NaN == <<"nan", <<0, 0>>>>
PosInf == <<"inf", <<1, 0>>>>
NegInf == <<"inf", <<-1, 0>>>>

\* a <= 0 in IEEE-754: false for NaN, true for either zero
FloatLeqZero(a) ==
    CASE a[1] = "num" -> a[2][1] <= 0
      [] a[1] = "negzero" -> TRUE
      [] a[1] = "inf" -> a[2][1] < 0
      [] OTHER -> FALSE

\* a > 0 in IEEE-754: false for NaN and for either zero
FloatGtZero(a) ==
    CASE a[1] = "num" -> a[2][1] > 0
      [] a[1] = "inf" -> a[2][1] > 0
      [] OTHER -> FALSE

\* NaN and the infinities have no JSON encoding
IsFinite(a) == a[1] \in {"num", "negzero"}

(***************************************************************************)
(* Constants of the package                                                *)
(***************************************************************************)
StatusPendingACK == "PENDING_ACK"
StatusPaymentAccepted == "PAYMENT_ACCEPTED"
StatusPaymentRejected == "PAYMENT_REJECTED"
StatusGenericError == "GENERIC_ERROR"

ChannelTZTigoC2B == "TZ-TIGO-C2B"
ChannelTZHalotelC2B == "TZ-HALOTEL-C2B"
ChannelTZAirtelC2B == "TZ-AIRTEL-C2B"
ServiceTZTigoB2C == "TZ-TIGO-B2C"
ServiceTZAirtelB2C == "TZ-AIRTEL-B2C"
ServiceTZBankB2C == "TZ-BANK-B2C"

GetSupportedChannels == <<ChannelTZTigoC2B, ChannelTZAirtelC2B, ChannelTZHalotelC2B>>

\* a faulty variant: the channel is not checked
isValidChannelAny(channel) == TRUE

isValidChannel(channel) ==
    \E i \in 1..Len(GetSupportedChannels) : GetSupportedChannels[i] = channel

GetSupportedServices == <<ServiceTZTigoB2C, ServiceTZAirtelB2C, ServiceTZBankB2C>>

isValidService(service) ==
    \E i \in 1..Len(GetSupportedServices) : GetSupportedServices[i] = service

(***************************************************************************)
(* error values.  type is the Go dynamic type of the error:                *)
(*   "nil", "fmt" (built by fmt.Errorf), "APIError", "Error".              *)
(***************************************************************************)
NoBody == <<"none", <<>>>>

NilErr ==
    [type |-> "nil", msg |-> "", StatusCode |-> 0, Reason |-> "", Message |-> "",
     Code |-> "", httpStatus |-> 0, httpBody |-> NoBody]

\* fmt.Errorf(msg): msg is the format string up to its first verb
Errorf(msg) == [NilErr EXCEPT !.type = "fmt", !.msg = msg]

\* the format strings that wrap a cause with %w
WrappingFormats ==
    {"failed to marshal request: ", "failed to create request: ",
     "request failed: ", "failed to read response: ",
     "failed to unmarshal response: ", "failed to parse webhook payload: "}

\* the Go type of a returned error value: fmt.Errorf gives a *fmt.wrapError
\* when the format wraps a cause and an *errors.errorString when it does not
TypeOfError(err) ==
    CASE err.type = "Error" -> "temboplus.Error"
      [] err.type = "APIError" -> "temboplus.APIError"
      [] err.type = "fmt" ->
            IF err.msg \in WrappingFormats
            THEN "*fmt.wrapError" ELSE "*errors.errorString"
      [] OTHER -> "nil"

\* a nil response pointer; a call's (response, error) before it returns
NilResp == <<"nil", <<>>>>
NoReturn == [resp |-> NilResp, err |-> NilErr]
NoCall == <<"none", <<>>, "none">>
NoReply == [kind |-> "none", status |-> 0, body |-> NoBody]
NoOutput == <<"none", <<>>>>

(***************************************************************************)
(* Validation rules                                                        *)
(***************************************************************************)
\* a faulty variant: the callback URL is not asked for
validateMobileMoneyRequestNoCallback(req) ==
    IF req.MSISDN = "" THEN Errorf("MSISDN is required")
    ELSE IF req.Channel = "" THEN Errorf("channel is required")
    ELSE IF FloatLeqZero(req.Amount) THEN Errorf("amount must be greater than 0")
    ELSE IF req.Narration = "" THEN Errorf("narration is required")
    ELSE IF req.TransactionRef = "" THEN Errorf("transactionRef is required")
    ELSE IF req.TransactionDate = "" THEN Errorf("transactionDate is required")
    ELSE IF ~isValidChannel(req.Channel) THEN Errorf("invalid channel: ")
    ELSE NilErr

validateMobileMoneyRequest(req) ==
    IF req.MSISDN = "" THEN Errorf("MSISDN is required")
    ELSE IF req.Channel = "" THEN Errorf("channel is required")
    ELSE IF FloatLeqZero(req.Amount) THEN Errorf("amount must be greater than 0")
    ELSE IF req.Narration = "" THEN Errorf("narration is required")
    ELSE IF req.TransactionRef = "" THEN Errorf("transactionRef is required")
    ELSE IF req.TransactionDate = "" THEN Errorf("transactionDate is required")
    ELSE IF req.CallbackURL = "" THEN Errorf("callbackUrl is required")
    ELSE IF ~isValidChannel(req.Channel) THEN Errorf("invalid channel: ")
    ELSE NilErr

validateWalletToMobileRequest(req) ==
    IF req.CountryCode = "" THEN Errorf("countryCode is required")
    ELSE IF req.CountryCode # "TZ" THEN Errorf("unsupported countryCode: ")
    ELSE IF req.AccountNo = "" THEN Errorf("accountNo is required")
    ELSE IF req.ServiceCode = "" THEN Errorf("serviceCode is required")
    ELSE IF ~isValidService(req.ServiceCode) THEN Errorf("invalid serviceCode: ")
    ELSE IF FloatLeqZero(req.Amount) THEN Errorf("amount must be greater than 0")
    ELSE IF req.MSISDN = "" THEN Errorf("msisdn is required")
    ELSE IF req.Narration = "" THEN Errorf("narration is required")
    ELSE IF req.CurrencyCode = "" THEN Errorf("currencyCode is required")
    ELSE IF req.CurrencyCode # "TZS" THEN Errorf("unsupported currencyCode: ")
    ELSE IF req.RecipientNames = "" THEN Errorf("recipientNames is required")
    ELSE IF req.TransactionRef = "" THEN Errorf("transactionRef is required")
    ELSE IF req.TransactionDate = "" THEN Errorf("transactionDate is required")
    ELSE IF req.CallbackURL = "" THEN Errorf("callbackUrl is required")
    ELSE NilErr

(***************************************************************************)
(* encoding/json on bytes.  A byte string is a sequence of one-character   *)
(* strings, and a character of several bytes is one element.  Bytes that   *)
(* are not valid UTF-8 do not occur in what the model feeds the decoder.   *)
(***************************************************************************)
Digit == {"0", "1", "2", "3", "4", "5", "6", "7", "8", "9"}

DigitVal(c) ==
    CASE c = "0" -> 0 [] c = "1" -> 1 [] c = "2" -> 2 [] c = "3" -> 3
      [] c = "4" -> 4 [] c = "5" -> 5 [] c = "6" -> 6 [] c = "7" -> 7
      [] c = "8" -> 8 [] c = "9" -> 9

\* the white space json's scanner skips around a value
IsSpace(c) == c \in {" ", "\t", "\r", "\n"}

RECURSIVE TrimLeft(_)
TrimLeft(b) ==
    IF b # <<>> /\ IsSpace(Head(b)) THEN TrimLeft(Tail(b)) ELSE b

RECURSIVE TrimRight(_)
TrimRight(b) ==
    IF b # <<>> /\ IsSpace(b[Len(b)]) THEN TrimRight(SubSeq(b, 1, Len(b) - 1)) ELSE b

Trim(b) == TrimRight(TrimLeft(b))

\* how many digits b holds from position i on
RECURSIVE DigitRun(_, _)
DigitRun(b, i) ==
    IF i <= Len(b) /\ b[i] \in Digit THEN 1 + DigitRun(b, i + 1) ELSE 0

\* the number the digits b[i .. i+n-1] spell
RECURSIVE DigitsValue(_, _, _)
DigitsValue(b, i, n) ==
    IF n = 0 THEN 0 ELSE DigitsValue(b, i, n - 1) * 10 + DigitVal(b[i + n - 1])

\* the parts of a JSON number literal: -? int frac? exp?   (ok: b is one)
NumberParts(b) ==
    LET neg == b # <<>> /\ b[1] = "-"
        i0 == IF neg THEN 2 ELSE 1
        run0 == DigitRun(b, i0)
        \* a leading 0 stands alone
        nInt == IF run0 > 0 /\ b[i0] = "0" THEN 1 ELSE run0
        i1 == i0 + nInt
        hasFrac == i1 <= Len(b) /\ b[i1] = "."
        nFrac == IF hasFrac THEN DigitRun(b, i1 + 1) ELSE 0
        i2 == IF hasFrac THEN i1 + 1 + nFrac ELSE i1
        hasExp == i2 <= Len(b) /\ b[i2] \in {"e", "E"}
        hasSign == hasExp /\ i2 + 1 <= Len(b) /\ b[i2 + 1] \in {"+", "-"}
        expNeg == hasSign /\ b[i2 + 1] = "-"
        i3 == IF hasExp THEN (IF hasSign THEN i2 + 2 ELSE i2 + 1) ELSE i2
        nExp == IF hasExp THEN DigitRun(b, i3) ELSE 0
        i4 == i3 + nExp
    IN  [ok |-> /\ nInt > 0
                /\ (hasFrac => nFrac > 0)
                /\ (hasExp => nExp > 0)
                /\ i4 = Len(b) + 1,
         neg |-> neg, i0 |-> i0, nInt |-> nInt, i1 |-> i1, nFrac |-> nFrac,
         expNeg |-> expNeg, i3 |-> i3, nExp |-> nExp]

IsNumberLiteral(b) == NumberParts(b).ok

HexDigit ==
    Digit \cup {"a", "b", "c", "d", "e", "f", "A", "B", "C", "D", "E", "F"}

HexVal(c) ==
    CASE c \in Digit -> DigitVal(c)
      [] c \in {"a", "A"} -> 10 [] c \in {"b", "B"} -> 11
      [] c \in {"c", "C"} -> 12 [] c \in {"d", "D"} -> 13
      [] c \in {"e", "E"} -> 14 [] c \in {"f", "F"} -> 15

\* the characters 0x20 .. 0x7e in order, with a filler in the place of 0x60
PrintableASCII ==
    " !\"#$%&'()*+,-./0123456789:;<=>?@ABCDEFGHIJKLMNOPQRSTUVWXYZ[\\]^_"
        \o "_abcdefghijklmnopqrstuvwxyz{|}~"

\* the character with code point n: itself when it can be written in a
\* string of the model, a name otherwise (a character of several bytes is
\* one element)
RuneChar(n) ==
    IF n >= 32 /\ n <= 126 /\ n # 96
    THEN SubSeq(PrintableASCII, n - 31, n - 31)
    ELSE IF n = 9 THEN "\t"
    ELSE IF n = 10 THEN "\n"
    ELSE IF n = 12 THEN "\f"
    ELSE IF n = 13 THEN "\r"
    ELSE "U+" \o ToString(n)

\* unicode.ReplacementChar
ReplacementChar == 65533

\* a character below 0x20, which a string literal cannot hold unescaped
ControlChars == {RuneChar(n) : n \in 0..31}

\* getu4: the code point of the six bytes \uXXXX at position i, or -1
getu4(b, i) ==
    IF /\ i + 5 <= Len(b)
       /\ b[i] = "\\"
       /\ b[i + 1] = "u"
       /\ \A k \in 2..5 : b[i + k] \in HexDigit
    THEN HexVal(b[i + 2]) * 4096 + HexVal(b[i + 3]) * 256
             + HexVal(b[i + 4]) * 16 + HexVal(b[i + 5])
    ELSE -1

\* utf16.IsSurrogate
IsSurrogate(r) == r >= 55296 /\ r < 57344

\* utf16.DecodeRune: the code point of a surrogate pair, or the replacement
DecodeRune(r1, r2) ==
    IF r1 >= 55296 /\ r1 < 56320 /\ r2 >= 56320 /\ r2 < 57344
    THEN (r1 - 55296) * 1024 + (r2 - 56320) + 65536
    ELSE ReplacementChar

\* the character a one-letter escape stands for
EscapeChar(c) ==
    CASE c = "b" -> RuneChar(8) [] c = "f" -> "\f" [] c = "n" -> "\n"
      [] c = "r" -> "\r" [] c = "t" -> "\t" [] OTHER -> c

\* the scanner inside a string literal from position i on: an escape is a
\* backslash before one of  " \ / b f n r t  or before u and four hex
\* digits; a quote ends the literal, so it must be the last byte; a
\* character below 0x20 is an error
RECURSIVE StringBodyOK(_, _)
StringBodyOK(b, i) ==
    IF i >= Len(b) THEN i = Len(b)
    ELSE IF b[i] = "\\"
    THEN IF i + 1 >= Len(b) THEN FALSE
         ELSE IF b[i + 1] \in {"\"", "\\", "/", "b", "f", "n", "r", "t"}
         THEN StringBodyOK(b, i + 2)
         ELSE IF b[i + 1] = "u"
         THEN i + 5 < Len(b) /\ getu4(b, i) >= 0 /\ StringBodyOK(b, i + 6)
         ELSE FALSE
    ELSE IF b[i] = "\"" \/ b[i] \in ControlChars THEN FALSE
    ELSE StringBodyOK(b, i + 1)

\* a string literal: quotes around characters and escapes
IsStringLiteral(b) ==
    /\ Len(b) >= 2
    /\ b[1] = "\""
    /\ b[Len(b)] = "\""
    /\ StringBodyOK(b, 2)

\* unquote from position i on: escapes are replaced by their characters; a
\* surrogate without its pair becomes the replacement character
RECURSIVE UnquoteFrom(_, _)
UnquoteFrom(b, i) ==
    IF i >= Len(b) THEN <<>>
    ELSE IF b[i] # "\\" THEN <<b[i]>> \o UnquoteFrom(b, i + 1)
    ELSE IF b[i + 1] # "u"
    THEN <<EscapeChar(b[i + 1])>> \o UnquoteFrom(b, i + 2)
    ELSE IF ~IsSurrogate(getu4(b, i))
    THEN <<RuneChar(getu4(b, i))>> \o UnquoteFrom(b, i + 6)
    ELSE IF i + 11 < Len(b)
             /\ DecodeRune(getu4(b, i), getu4(b, i + 6)) # ReplacementChar
    THEN <<RuneChar(DecodeRune(getu4(b, i), getu4(b, i + 6)))>>
             \o UnquoteFrom(b, i + 12)
    ELSE <<RuneChar(ReplacementChar)>> \o UnquoteFrom(b, i + 6)

NullLiteral == <<"n", "u", "l", "l">>

\* the content of a string literal
Unquote(b) == UnquoteFrom(b, 2)

Pow10(n) == IF n <= 0 THEN 1 ELSE [k \in 1..9 |-> 10 ^ k][n]

\* number of decimal digits of m > 0
RECURSIVE NumDigits(_)
NumDigits(m) == IF m < 10 THEN 1 ELSE 1 + NumDigits(m \div 10)

\* the first nine digits of the mantissa m > 0 (padded with zeros)
Lead9(m) ==
    LET k == NumDigits(m)
    IN  IF k >= 9 THEN m \div Pow10(k - 9) ELSE m * Pow10(9 - k)

\* m * 10^e with first-digit exponent 308 rounds to an infinity: it is at
\* least 1.7976931348623158...e308, half way from the largest float64 to
\* 2^1024.  m has at most ten digits and ends in no zero.
Overflows308(m) ==
    IF NumDigits(m) = 10 THEN m > 1797693134 ELSE Lead9(m) > 179769313

\* 2^-1075 and 2^-1074, half the smallest denormal and the smallest denormal
\* (the distance between two denormals), in units of 1e-324: the integer part
\* and the first 36 decimals, four digits to an element
HalfMinDenormal == <<2, 4703, 2822, 9206, 2327, 2088, 2843, 9643, 4110, 6861>>
MinDenormal == <<4, 9406, 5645, 8412, 4654, 4176, 5687, 9286, 8221, 3723>>

\* A fixed-point number is twelve elements of four digits: three of the
\* integer part, nine of the decimals.
Limb(n, q) == (n \div (10000 ^ q)) % 10000

LimbTerm(n, c, q, j) == IF j >= 0 /\ j <= 9 THEN Limb(n, q) * c[j + 1] ELSE 0

RawLimb(n, c, idx) ==
    LimbTerm(n, c, 0, idx - 3) + LimbTerm(n, c, 1, idx - 2) + LimbTerm(n, c, 2, idx - 1)

RECURSIVE TimesFrom(_, _, _, _)
TimesFrom(n, c, idx, carry) ==
    IF idx = 0 THEN <<>>
    ELSE TimesFrom(n, c, idx - 1, (RawLimb(n, c, idx) + carry) \div 10000)
             \o <<(RawLimb(n, c, idx) + carry) % 10000>>

\* n * c for an integer 0 <= n < 2^31 and c one of the two constants
Times(n, c) == TimesFrom(n, c, 12, 0)

\* the i-th decimal of f * 10^-s, f < 10^s
FracDigit(f, s, i) == IF i > s THEN 0 ELSE (f \div Pow10(s - i)) % 10

FracLimb(f, s, j) ==
    1000 * FracDigit(f, s, 4 * j - 3) + 100 * FracDigit(f, s, 4 * j - 2)
        + 10 * FracDigit(f, s, 4 * j - 1) + FracDigit(f, s, 4 * j)

\* m * 10^-s as a fixed-point number, 0 <= s <= 9
FixedOf(m, s) ==
    <<Limb(m \div Pow10(s), 2), Limb(m \div Pow10(s), 1), Limb(m \div Pow10(s), 0)>>
        \o [j \in 1..9 |-> FracLimb(m % Pow10(s), s, j)]

FixedInt(a) == a[1] * 100000000 + a[2] * 10000 + a[3]

RECURSIVE FixedLess(_, _, _)
FixedLess(a, b, i) ==
    IF i > Len(a) THEN FALSE
    ELSE IF a[i] < b[i] THEN TRUE
    ELSE IF a[i] > b[i] THEN FALSE
    ELSE FixedLess(a, b, i + 1)

\* the k in lo..hi for which v (in units of 1e-324) is nearest to k * 2^-1074:
\* the least k with v < (2k + 1) * 2^-1075.  No decimal is half way.
RECURSIVE DenormalIndex(_, _, _)
DenormalIndex(v, lo, hi) ==
    IF lo = hi THEN lo
    ELSE IF FixedLess(v, Times(2 * ((lo + hi) \div 2) + 1, HalfMinDenormal), 1)
    THEN DenormalIndex(v, lo, (lo + hi) \div 2)
    ELSE DenormalIndex(v, (lo + hi) \div 2 + 1, hi)

\* the multiple of the greatest power of ten (10^j or below, j >= 1) that
\* lies above the integer loInt and not above hiInt, 0 when there is none
RECURSIVE CoarsestIn(_, _, _)
CoarsestIn(loInt, hiInt, j) ==
    IF j = 0 THEN 0
    ELSE IF (hiInt \div Pow10(j)) * Pow10(j) > loInt
    THEN (hiInt \div Pow10(j)) * Pow10(j)
    ELSE CoarsestIn(loInt, hiInt, j - 1)

NearestInt(x) == FixedInt(x) + (IF x[4] >= 5000 THEN 1 ELSE 0)

\* the shortest decimal, in units of 1e-324, that rounds to the denormal
\* k * 2^-1074: the decimals that round to it lie between (2k - 1) * 2^-1075
\* and (2k + 1) * 2^-1075; of those with the fewest digits, the nearest
DenormalDecimal(k) ==
    IF k = 0 THEN 0
    ELSE IF CoarsestIn(FixedInt(Times(2 * k - 1, HalfMinDenormal)),
                       FixedInt(Times(2 * k + 1, HalfMinDenormal)), 9) # 0
    THEN CoarsestIn(FixedInt(Times(2 * k - 1, HalfMinDenormal)),
                    FixedInt(Times(2 * k + 1, HalfMinDenormal)), 9)
    ELSE NearestInt(Times(k, MinDenormal))

Zero(neg) == IF neg THEN NegZero ELSE Num(0)

\* the float64 with the shortest decimal c * 1e-324 and the sign
SignedDenormal(neg, c) ==
    IF c = 0 THEN Zero(neg) ELSE Dec((IF neg THEN 0 - c ELSE c), -324)

\* the float64 of sign * m * 10^e, where sci is the decimal exponent of m's
\* first digit (m has at most nine digits and ends in no zero): a range
\* error when it rounds to an infinity, a zero with the sign when it is below
\* 2.4703282292...e-324, half the smallest denormal.  A decimal with digits
\* below 1e-323 is rounded to the nearest denormal and held as the shortest
\* decimal of that denormal; any other decimal is the shortest one of its
\* float64 already.
RoundToFloat64(neg, m, e, sci) ==
    IF m = 0 THEN [ok |-> TRUE, val |-> Zero(neg)]
    ELSE IF sci > 308 \/ (sci = 308 /\ Overflows308(m))
    THEN [ok |-> FALSE, val |-> (IF neg THEN NegInf ELSE PosInf)]
    ELSE IF sci < -324
    THEN [ok |-> TRUE, val |-> Zero(neg)]
    ELSE IF e >= -323
    THEN [ok |-> TRUE, val |-> <<"num", <<(IF neg THEN 0 - m ELSE m), e>>>>]
    ELSE [ok |-> TRUE,
          val |-> SignedDenormal(neg,
                      DenormalDecimal(DenormalIndex(FixedOf(m, -324 - e), 0,
                                          (m \div Pow10(-324 - e)) \div 4 + 1)))]

DecimalToFloat64(neg, n) == RoundToFloat64(neg, n[1], n[2], n[2] + NumDigits(n[1]) - 1)

\* the decimal <<m, e>> a number literal with the parts p spells
LiteralDecimal(b, p) ==
    Normalize(DigitsValue(b, p.i0, p.nInt) * Pow10(p.nFrac)
                  + DigitsValue(b, p.i1 + 1, p.nFrac),
              (IF p.expNeg THEN 0 - DigitsValue(b, p.i3, p.nExp)
               ELSE DigitsValue(b, p.i3, p.nExp)) - p.nFrac)

ParseFloatParts(b, p) == DecimalToFloat64(p.neg, LiteralDecimal(b, p))

\* strconv.ParseFloat on a number literal of at most nine significant digits
ParseFloat(b) == ParseFloatParts(b, NumberParts(b))

\* v, or the parsed value r when the parse succeeded
FloatResult(r, v) ==
    IF r.ok THEN [ok |-> TRUE, val |-> r.val] ELSE [ok |-> FALSE, val |-> v]

UnmarshalFloat64Trimmed(t, v) ==
    IF t = NullLiteral THEN [ok |-> TRUE, val |-> v]
    ELSE IF IsNumberLiteral(t) THEN FloatResult(ParseFloat(t), v)
    ELSE [ok |-> FALSE, val |-> v]

\* json.Unmarshal(b, &v) for v float64: the new v and whether err == nil.
\* A number sets v; null leaves v alone and is no error; any other value
\* (or bytes that are no JSON value) is an error.
UnmarshalFloat64(b, v) == UnmarshalFloat64Trimmed(Trim(b), v)

UnmarshalStringTrimmed(t, s) ==
    IF t = NullLiteral THEN [ok |-> TRUE, val |-> s]
    ELSE IF IsStringLiteral(t) THEN [ok |-> TRUE, val |-> Unquote(t)]
    ELSE [ok |-> FALSE, val |-> s]

\* json.Unmarshal(b, &s) for s string
UnmarshalString(b, s) == UnmarshalStringTrimmed(Trim(b), s)

(***************************************************************************)
(* NullableFloat64: Value is <<>> (nil) or <<f>> (a pointer to f)          *)
(***************************************************************************)
Absent == <<>>
Present(f) == <<f>>

\* Helper used by NullableFloat64
parseFloatFromString(s) == UnmarshalFloat64(s, Num(0))

\* "attempt ParseFloat", then the fallback
nullableFromParseFloat(v) ==
    IF v.ok THEN [Value |-> Present(v.val), err |-> NilErr]
    ELSE [Value |-> Absent, err |-> NilErr]

\* the string s was decoded; parsed is json.Unmarshal([]byte(s), &parsed)
nullableFromParsed(s, parsed) ==
    IF parsed.ok THEN [Value |-> Present(parsed.val), err |-> NilErr]
    ELSE nullableFromParseFloat(parseFloatFromString(s))

\* "Try string number": str is json.Unmarshal(b, &s)
nullableFromString(str) ==
    IF ~str.ok THEN [Value |-> Absent, err |-> NilErr]
    ELSE IF str.val = <<>> THEN [Value |-> Absent, err |-> NilErr]
    ELSE nullableFromParsed(str.val, UnmarshalFloat64(str.val, Num(0)))

\* "Try number first": num is json.Unmarshal(b, &num)
nullableFromNumber(b, num) ==
    IF num.ok THEN [Value |-> Present(num.val), err |-> NilErr]
    ELSE nullableFromString(UnmarshalString(b, <<>>))

\* the Value left in n and the error returned (always nil)
NullableFloat64UnmarshalJSON(b) ==
    IF b = NullLiteral \/ b = <<"\"", "\"">> THEN [Value |-> Absent, err |-> NilErr]
    ELSE nullableFromNumber(b, UnmarshalFloat64(b, Num(0)))

(***************************************************************************)
(* JSON values.  A document is <<tag, payload>>:                           *)
(*   <<"invalid", <<>>>>  bytes that are no JSON value                     *)
(*   <<"null", <<>>>>, <<"bool", <<>>>>                                    *)
(*   <<"num", b>>         a number, b the bytes of its literal             *)
(*   <<"str", s>>         a string, s its content                          *)
(*   <<"arr", q>>         an array, q the sequence of its elements         *)
(*   <<"obj", q>>         an object, q the sequence of its members         *)
(*                        <<key, value>> in the order of the document      *)
(*   <<"raw", b>>         a value given by its bytes b (the form in which  *)
(*                        a json.Unmarshaler receives it)                  *)
(* A key is the sequence of its characters (a character of several bytes   *)
(* is one element, written as RuneChar writes it).  The letters with case  *)
(* outside ASCII that occur in keys are the two that encoding/json folds   *)
(* to ASCII letters, U+017F and U+212A.                                    *)
(***************************************************************************)
JInvalid == <<"invalid", <<>>>>
JNull == <<"null", <<>>>>
JBool == <<"bool", <<>>>>
JNum(b) == <<"num", b>>
JStr(s) == <<"str", s>>

JArr(q) == <<"arr", q>>
JRaw(b) == <<"raw", b>>

\* the characters of a string of ASCII characters
Chars(s) == [i \in 1..Len(s) |-> SubSeq(s, i, i)]

\* the string of a sequence of characters
RECURSIVE StringOf(_)
StringOf(q) == IF q = <<>> THEN "" ELSE Head(q) \o StringOf(Tail(q))

\* A Go string is a string of ASCII characters (tab, line feed, form feed
\* and carriage return among them), or the one string that is not valid
\* UTF-8 (the one byte 0xff).  encoding/json writes the replacement
\* character U+FFFD for an invalid byte.
InvalidUTF8Text == "\\xff"
ReplacementText == RuneChar(ReplacementChar)

\* the bytes json.Marshal writes for one character of a string: a quote and
\* a backslash get a backslash; line feed, carriage return, tab and form feed
\* their one-letter escape; <, > and & (HTML escaping is on in json.Marshal)
\* their \u00XX escape; any other character is written as it is
EncodeChar(c) ==
    CASE c = "\"" -> <<"\\", "\"">>
      [] c = "\\" -> <<"\\", "\\">>
      [] c = "\n" -> <<"\\", "n">>
      [] c = "\r" -> <<"\\", "r">>
      [] c = "\t" -> <<"\\", "t">>
      [] c = "\f" -> <<"\\", "f">>
      [] c = "<" -> <<"\\", "u", "0", "0", "3", "c">>
      [] c = ">" -> <<"\\", "u", "0", "0", "3", "e">>
      [] c = "&" -> <<"\\", "u", "0", "0", "2", "6">>
      [] OTHER -> <<c>>

RECURSIVE EncodeChars(_, _)
EncodeChars(s, i) ==
    IF i > Len(s) THEN <<>>
    ELSE EncodeChar(SubSeq(s, i, i)) \o EncodeChars(s, i + 1)

\* the string literal json.Marshal writes for a Go string
EncodeString(s) ==
    IF s = InvalidUTF8Text THEN <<"\"", "\\", "u", "f", "f", "f", "d", "\"">>
    ELSE <<"\"">> \o EncodeChars(s, 1) \o <<"\"">>

\* the document value the bytes b spell when they are a string literal
StringValue(b) ==
    IF IsStringLiteral(b) THEN JStr(StringOf(Unquote(b))) ELSE JInvalid

\* json.Marshal of a Go string, as the document value its bytes spell
MarshalString(s) == StringValue(EncodeString(s))

\* an object, its keys given as sequences of characters
JMembers(q) == <<"obj", q>>

\* an object, its keys given as strings of ASCII characters
JObj(q) == JMembers([i \in DOMAIN q |-> <<Chars(q[i][1]), q[i][2]>>])

\* the object o has a member with this very key
Has(o, key) == \E i \in DOMAIN o : o[i][1] = Chars(key)

\* the value of the last member of o with this very key
Member(o, key) ==
    o[CHOOSE i \in DOMAIN o :
          o[i][1] = Chars(key)
              /\ \A j \in DOMAIN o : o[j][1] = Chars(key) => j <= i][2]

UpperLetters == "ABCDEFGHIJKLMNOPQRSTUVWXYZ"
LowerLetters == "abcdefghijklmnopqrstuvwxyz"

\* the upper-case letter of each lower-case letter
UpperOf ==
    [c \in {SubSeq(LowerLetters, i, i) : i \in 1..26} |->
        SubSeq(UpperLetters,
               CHOOSE i \in 1..26 : SubSeq(LowerLetters, i, i) = c,
               CHOOSE i \in 1..26 : SubSeq(LowerLetters, i, i) = c)]

\* the long s (U+017F) and the Kelvin sign (U+212A)
LongS == RuneChar(383)
KelvinSign == RuneChar(8490)

\* foldRune: the smallest character of the fold set of c.  A lower-case
\* ASCII letter becomes upper case, the long s becomes S (its fold set is
\* S, s, U+017F) and the Kelvin sign K (K, k, U+212A); a character without
\* case is its own fold set
foldRune(c) ==
    IF c \in DOMAIN UpperOf THEN UpperOf[c]
    ELSE IF c = LongS THEN "S"
    ELSE IF c = KelvinSign THEN "K"
    ELSE c

\* the key s and the tag t, of as many characters, are equal under case
\* folding from position i on
RECURSIVE equalFold(_, _, _)
equalFold(s, t, i) ==
    \/ i > Len(s)
    \/ /\ foldRune(s[i]) = foldRune(SubSeq(t, i, i))
       /\ equalFold(s, t, i + 1)

\* the key names the struct field with this json tag: the decoder looks the
\* key up among the tags as written and then among the folded tags (the
\* tags of one struct differ after folding).  The key is a sequence of
\* characters, the tag a string of ASCII characters
KeyMatches(key, tag) ==
    /\ Len(key) = Len(tag)
    /\ (key = Chars(tag) \/ equalFold(key, tag, 1))

\* the values of the members of o that name the field, in document order
RECURSIVE FieldValues(_, _)
FieldValues(o, tag) ==
    IF o = <<>> THEN <<>>
    ELSE IF KeyMatches(Head(o)[1], tag)
    THEN <<Head(o)[2]>> \o FieldValues(Tail(o), tag)
    ELSE FieldValues(Tail(o), tag)

\* the literal with the parts p is that of an integer: -? digits
IsIntParts(p) == p.ok /\ p.nFrac = 0 /\ p.nExp = 0

\* the digits of 2^63 - 1 and of 2^63, the ends of the range of an int
MaxInt64Digits ==
    <<"9", "2", "2", "3", "3", "7", "2", "0", "3", "6", "8", "5", "4", "7", "7",
      "5", "8", "0", "7">>
MinInt64Digits ==
    <<"9", "2", "2", "3", "3", "7", "2", "0", "3", "6", "8", "5", "4", "7", "7",
      "5", "8", "0", "8">>

\* x and y are digits of one length: from position i on, x spells no more
\* than y
RECURSIVE DigitsLeq(_, _, _)
DigitsLeq(x, y, i) ==
    IF i > Len(x) THEN TRUE
    ELSE IF DigitVal(x[i]) < DigitVal(y[i]) THEN TRUE
    ELSE IF DigitVal(x[i]) > DigitVal(y[i]) THEN FALSE
    ELSE DigitsLeq(x, y, i + 1)

\* the integer literal is in the range of an int (64 bits)
FitsInt64(b, p) ==
    \/ p.nInt < 19
    \/ /\ p.nInt = 19
       /\ DigitsLeq(SubSeq(b, p.i0, p.i0 + 18),
                    IF p.neg THEN MinInt64Digits ELSE MaxInt64Digits, 1)

\* strconv.ParseInt(s, 10, 64) on a number literal: a literal with a
\* fraction or an exponent is no integer, one out of range is an error
ParseIntParts(b, p) ==
    IF ~IsIntParts(p) THEN [ok |-> FALSE, val |-> 0]
    ELSE IF ~FitsInt64(b, p) THEN [ok |-> FALSE, val |-> 0]
    ELSE [ok |-> TRUE,
          val |-> IF p.neg THEN 0 - DigitsValue(b, p.i0, p.nInt)
                  ELSE DigitsValue(b, p.i0, p.nInt)]

ParseInt(b) == ParseIntParts(b, NumberParts(b))

IntResult(r, old) ==
    IF r.ok THEN [ok |-> TRUE, val |-> r.val] ELSE [ok |-> FALSE, val |-> old]

\* the result r, with an error when b is false
AndOk(b, r) == [ok |-> b /\ r.ok, val |-> r.val]

\* A field of a struct is decoded from the members of the object o, one
\* after the other: a member whose key names the field (KeyMatches) stores
\* its value, so the last one stays.  A value of the JSON type of the field
\* sets it, null leaves it alone, any other value and a number out of range
\* are an UnmarshalTypeError, which the decoder records before it goes on
\* with the members that follow.  A missing key leaves the field alone.

\* a string field
RECURSIVE FieldString(_, _, _)
FieldString(o, key, old) ==
    IF o = <<>> THEN [ok |-> TRUE, val |-> old]
    ELSE IF ~KeyMatches(Head(o)[1], key) THEN FieldString(Tail(o), key, old)
    ELSE IF Head(o)[2][1] = "str" THEN FieldString(Tail(o), key, Head(o)[2][2])
    ELSE IF Head(o)[2][1] = "null" THEN FieldString(Tail(o), key, old)
    ELSE AndOk(FALSE, FieldString(Tail(o), key, old))

\* an int field
RECURSIVE FieldInt(_, _, _)
FieldInt(o, key, old) ==
    IF o = <<>> THEN [ok |-> TRUE, val |-> old]
    ELSE IF ~KeyMatches(Head(o)[1], key) THEN FieldInt(Tail(o), key, old)
    ELSE IF Head(o)[2][1] = "null" THEN FieldInt(Tail(o), key, old)
    ELSE IF Head(o)[2][1] = "num"
    THEN AndOk(ParseInt(Head(o)[2][2]).ok,
               FieldInt(Tail(o), key, IntResult(ParseInt(Head(o)[2][2]), old).val))
    ELSE AndOk(FALSE, FieldInt(Tail(o), key, old))

\* a float64 field
RECURSIVE FieldFloat64(_, _, _)
FieldFloat64(o, key, old) ==
    IF o = <<>> THEN [ok |-> TRUE, val |-> old]
    ELSE IF ~KeyMatches(Head(o)[1], key) THEN FieldFloat64(Tail(o), key, old)
    ELSE IF Head(o)[2][1] = "null" THEN FieldFloat64(Tail(o), key, old)
    ELSE IF Head(o)[2][1] = "num"
    THEN AndOk(ParseFloat(Head(o)[2][2]).ok,
               FieldFloat64(Tail(o), key, FloatResult(ParseFloat(Head(o)[2][2]), old).val))
    ELSE AndOk(FALSE, FieldFloat64(Tail(o), key, old))

\* a NullableFloat64 field: the decoder hands the bytes of the value to
\* UnmarshalJSON, whatever the value is (null included); r is what the call
\* for one member returned, and the members that follow are decoded next
RECURSIVE FieldNullableFloat64(_, _, _)
RECURSIVE NullableFieldRest(_, _, _)
NullableFieldRest(o, key, r) ==
    AndOk(r.err.type = "nil", FieldNullableFloat64(o, key, r.Value))

FieldNullableFloat64(o, key, old) ==
    IF o = <<>> THEN [ok |-> TRUE, val |-> old]
    ELSE IF ~KeyMatches(Head(o)[1], key) THEN FieldNullableFloat64(Tail(o), key, old)
    ELSE NullableFieldRest(Tail(o), key, NullableFloat64UnmarshalJSON(Head(o)[2][2]))

\* json.Unmarshal into a struct (the Unmarshal... operators below): an object
\* is decoded field by field; null leaves the zero value and is no error;
\* anything else is an error

ZeroCollectionResponse == [StatusCode |-> "", TransactionRef |-> "", TransactionID |-> ""]

CollectionResponseOf(sc, tr, ti) ==
    [ok |-> sc.ok /\ tr.ok /\ ti.ok,
     val |-> [StatusCode |-> sc.val, TransactionRef |-> tr.val,
              TransactionID |-> ti.val]]

CollectionResponseFields(o) ==
    CollectionResponseOf(FieldString(o, "statusCode", ""),
                         FieldString(o, "transactionRef", ""),
                         FieldString(o, "transactionId", ""))

\* json.Unmarshal(respBody, &response), response a MobileMoneyCollectionResponse
UnmarshalCollectionResponse(doc) ==
    CASE doc[1] = "obj" -> CollectionResponseFields(doc[2])
      [] doc[1] = "null" -> [ok |-> TRUE, val |-> ZeroCollectionResponse]
      [] OTHER -> [ok |-> FALSE, val |-> ZeroCollectionResponse]

\* json.Unmarshal(payload, &webhook), webhook a WebhookPayload
UnmarshalWebhookPayload(doc) ==
    CASE doc[1] = "obj" -> CollectionResponseFields(doc[2])
      [] doc[1] = "null" -> [ok |-> TRUE, val |-> ZeroCollectionResponse]
      [] OTHER -> [ok |-> FALSE, val |-> ZeroCollectionResponse]

ZeroCollectionRequest ==
    [MSISDN |-> "", Channel |-> "", Amount |-> Num(0), Narration |-> "",
     TransactionRef |-> "", TransactionDate |-> "", CallbackURL |-> ""]

CollectionRequestOf(ms, ch, am, na, tr, td, cb) ==
    [ok |-> ms.ok /\ ch.ok /\ am.ok /\ na.ok /\ tr.ok /\ td.ok /\ cb.ok,
     val |-> [MSISDN |-> ms.val, Channel |-> ch.val, Amount |-> am.val,
              Narration |-> na.val, TransactionRef |-> tr.val,
              TransactionDate |-> td.val, CallbackURL |-> cb.val]]

\* a faulty variant: CallbackURL is tagged json:"-"
CollectionRequestTagsNoCallback ==
    [MSISDN |-> "msisdn", Channel |-> "channel", Amount |-> "amount",
     Narration |-> "narration", TransactionRef |-> "transactionRef",
     TransactionDate |-> "transactionDate", CallbackURL |-> "-"]

\* the json tags of MobileMoneyCollectionRequest: the one tag of a field
\* names its member for json.Marshal and for json.Unmarshal
CollectionRequestTags ==
    [MSISDN |-> "msisdn", Channel |-> "channel", Amount |-> "amount",
     Narration |-> "narration", TransactionRef |-> "transactionRef",
     TransactionDate |-> "transactionDate", CallbackURL |-> "callbackUrl"]

\* a field tagged "-" is neither written nor read
TaggedString(o, tag, old) ==
    IF tag = "-" THEN [ok |-> TRUE, val |-> old] ELSE FieldString(o, tag, old)

TaggedFloat64(o, tag, old) ==
    IF tag = "-" THEN [ok |-> TRUE, val |-> old] ELSE FieldFloat64(o, tag, old)

WrittenMembers(q) == SelectSeq(q, LAMBDA mem : mem[1] # "-")

\* the fields of a MobileMoneyCollectionRequest read from the members o
CollectionRequestFields(o) ==
    CollectionRequestOf(TaggedString(o, CollectionRequestTags.MSISDN, ""),
                        TaggedString(o, CollectionRequestTags.Channel, ""),
                        TaggedFloat64(o, CollectionRequestTags.Amount, Num(0)),
                        TaggedString(o, CollectionRequestTags.Narration, ""),
                        TaggedString(o, CollectionRequestTags.TransactionRef, ""),
                        TaggedString(o, CollectionRequestTags.TransactionDate, ""),
                        TaggedString(o, CollectionRequestTags.CallbackURL, ""))

\* json.Unmarshal(data, &req), req a MobileMoneyCollectionRequest
UnmarshalCollectionRequest(doc) ==
    CASE doc[1] = "obj" -> CollectionRequestFields(doc[2])
      [] doc[1] = "null" -> [ok |-> TRUE, val |-> ZeroCollectionRequest]
      [] OTHER -> [ok |-> FALSE, val |-> ZeroCollectionRequest]

ZeroAPIError == [StatusCode |-> 0, Reason |-> "", Message |-> ""]

APIErrorStructOf(sc, re, me) ==
    [ok |-> sc.ok /\ re.ok /\ me.ok,
     val |-> [StatusCode |-> sc.val, Reason |-> re.val, Message |-> me.val]]

\* Details is a json.RawMessage: it takes any value
APIErrorFields(o) ==
    APIErrorStructOf(FieldInt(o, "statusCode", 0), FieldString(o, "reason", ""),
                     FieldString(o, "message", ""))

\* json.Unmarshal(respBody, &apiErr)
UnmarshalAPIError(doc) ==
    CASE doc[1] = "obj" -> APIErrorFields(doc[2])
      [] doc[1] = "null" -> [ok |-> TRUE, val |-> ZeroAPIError]
      [] OTHER -> [ok |-> FALSE, val |-> ZeroAPIError]

ZeroBalance ==
    [AvailableBalance |-> Num(0), CurrentBalance |-> Num(0), AccountNo |-> "",
     AccountStatus |-> "", AccountName |-> ""]

BalanceOf(ab, cb, no, st, na) ==
    [ok |-> ab.ok /\ cb.ok /\ no.ok /\ st.ok /\ na.ok,
     val |-> [AvailableBalance |-> ab.val, CurrentBalance |-> cb.val,
              AccountNo |-> no.val, AccountStatus |-> st.val,
              AccountName |-> na.val]]

BalanceFields(o) ==
    BalanceOf(FieldFloat64(o, "availableBalance", Num(0)),
              FieldFloat64(o, "currentBalance", Num(0)),
              FieldString(o, "accountNo", ""),
              FieldString(o, "accountStatus", ""),
              FieldString(o, "accountName", ""))

\* json.Unmarshal(body, &result), result a CollectionBalanceResponse
UnmarshalBalance(doc) ==
    CASE doc[1] = "obj" -> BalanceFields(doc[2])
      [] doc[1] = "null" -> [ok |-> TRUE, val |-> ZeroBalance]
      [] OTHER -> [ok |-> FALSE, val |-> ZeroBalance]

ZeroEntry ==
    [AccountNo |-> "", DebitOrCredit |-> "", TranRefNo |-> "", Narration |-> "",
     TxnDate |-> "", ValueDate |-> "", AmountCredited |-> Absent,
     AmountDebited |-> Absent, Balance |-> Num(0)]

EntryOf(an, dc, tn, na, td, vd, ac, ad, ba) ==
    [ok |-> an.ok /\ dc.ok /\ tn.ok /\ na.ok /\ td.ok /\ vd.ok /\ ac.ok
            /\ ad.ok /\ ba.ok,
     val |-> [AccountNo |-> an.val, DebitOrCredit |-> dc.val, TranRefNo |-> tn.val,
              Narration |-> na.val, TxnDate |-> td.val, ValueDate |-> vd.val,
              AmountCredited |-> ac.val, AmountDebited |-> ad.val,
              Balance |-> ba.val]]

EntryFields(o) ==
    EntryOf(FieldString(o, "accountNo", ""),
            FieldString(o, "debitOrCredit", ""),
            FieldString(o, "tranRefNo", ""),
            FieldString(o, "narration", ""),
            FieldString(o, "txnDate", ""),
            FieldString(o, "valueDate", ""),
            FieldNullableFloat64(o, "amountCredited", Absent),
            FieldNullableFloat64(o, "amountDebited", Absent),
            FieldFloat64(o, "balance", Num(0)))

UnmarshalEntry(doc) ==
    CASE doc[1] = "obj" -> EntryFields(doc[2])
      [] doc[1] = "null" -> [ok |-> TRUE, val |-> ZeroEntry]
      [] OTHER -> [ok |-> FALSE, val |-> ZeroEntry]

\* the entries decoded one by one: no error when none of them had one
EntriesOf(decoded) ==
    [ok |-> \A i \in 1..Len(decoded) : decoded[i].ok,
     val |-> [i \in 1..Len(decoded) |-> decoded[i].val]]

\* json.Unmarshal(body, &entries), entries a []CollectionStatementEntry:
\* an array decodes element by element, null is the nil slice
UnmarshalEntries(doc) ==
    CASE doc[1] = "arr" -> EntriesOf([i \in 1..Len(doc[2]) |-> UnmarshalEntry(doc[2][i])])
      [] doc[1] = "null" -> [ok |-> TRUE, val |-> <<>>]
      [] OTHER -> [ok |-> FALSE, val |-> <<>>]

(***************************************************************************)
(* Encoding requests (json.Marshal)                                        *)
(***************************************************************************)
DigitChar(d) == <<"0", "1", "2", "3", "4", "5", "6", "7", "8", "9">>[d + 1]

RECURSIVE DigitChars(_)
DigitChars(m) ==
    IF m < 10 THEN <<DigitChar(m)>>
    ELSE DigitChars(m \div 10) \o <<DigitChar(m % 10)>>

Zeros(n) == [i \in 1..n |-> "0"]

\* the digits D of a mantissa followed by 10^e, in the form ddd.ddd
PlainDigits(D, e) ==
    IF e >= 0 THEN D \o Zeros(e)
    ELSE IF Len(D) > 0 - e
    THEN SubSeq(D, 1, Len(D) + e) \o <<".">> \o SubSeq(D, Len(D) + e + 1, Len(D))
    ELSE <<"0", ".">> \o Zeros(0 - e - Len(D)) \o D

\* the digits D in the form d.ddde-7, d.ddde+21: sci is the exponent of the
\* first digit, written without a leading zero
ExponentDigits(D, sci) ==
    (IF Len(D) = 1 THEN D ELSE <<D[1], ".">> \o SubSeq(D, 2, Len(D)))
        \o (IF sci < 0 THEN <<"e", "-">> \o DigitChars(0 - sci)
            ELSE <<"e", "+">> \o DigitChars(sci))

\* the exponent form is used when the value is below 1e-6 or at least 1e21
FormatDigits(D, e) ==
    IF D # <<"0">> /\ (e + Len(D) - 1 < -6 \/ e + Len(D) - 1 >= 21)
    THEN ExponentDigits(D, e + Len(D) - 1)
    ELSE PlainDigits(D, e)

\* the float64 a finite value stands for, held as its shortest decimal: the
\* value itself unless it is written with digits below 1e-323
ShortestDecimal(a) ==
    IF a[1] = "num" /\ a[2][2] < -323
    THEN DecimalToFloat64(a[2][1] < 0,
                          <<(IF a[2][1] < 0 THEN 0 - a[2][1] ELSE a[2][1]), a[2][2]>>).val
    ELSE a

FormatShortest(a) ==
    IF a[1] = "negzero" THEN <<"-", "0">>
    ELSE IF a[2][1] < 0 THEN <<"-">> \o FormatDigits(DigitChars(0 - a[2][1]), a[2][2])
    ELSE FormatDigits(DigitChars(a[2][1]), a[2][2])

\* the literal json.Marshal writes for a finite float64: the shortest decimal
\* that reads back as the same value, in the form ddd.ddd when
\* 1e-6 <= |f| < 1e21 or f = 0, else in the form d.ddde-7, d.ddde+21 (the
\* exponent's leading zero is dropped: e-07 is written e-7); negative zero
\* is written -0
FormatFloat(a) == FormatShortest(ShortestDecimal(a))

\* json.Marshal of a MobileMoneyCollectionRequest: NaN and the infinities
\* are an UnsupportedValueError
MarshalCollectionRequest(req) ==
    IF ~IsFinite(req.Amount) THEN [ok |-> FALSE, json |-> JInvalid]
    ELSE [ok |-> TRUE,
          json |-> JObj(WrittenMembers(
              <<<<CollectionRequestTags.MSISDN, MarshalString(req.MSISDN)>>,
                <<CollectionRequestTags.Channel, MarshalString(req.Channel)>>,
                <<CollectionRequestTags.Amount, JNum(FormatFloat(req.Amount))>>,
                <<CollectionRequestTags.Narration, MarshalString(req.Narration)>>,
                <<CollectionRequestTags.TransactionRef,
                  MarshalString(req.TransactionRef)>>,
                <<CollectionRequestTags.TransactionDate,
                  MarshalString(req.TransactionDate)>>,
                <<CollectionRequestTags.CallbackURL,
                  MarshalString(req.CallbackURL)>>>>))]

\* json.Marshal of a WalletToMobileRequest
MarshalWalletRequest(req) ==
    IF ~IsFinite(req.Amount) THEN [ok |-> FALSE, json |-> JInvalid]
    ELSE [ok |-> TRUE,
          json |-> JObj(<<<<"countryCode", MarshalString(req.CountryCode)>>,
                         <<"accountNo", MarshalString(req.AccountNo)>>,
                         <<"serviceCode", MarshalString(req.ServiceCode)>>,
                         <<"amount", JNum(FormatFloat(req.Amount))>>,
                         <<"msisdn", MarshalString(req.MSISDN)>>,
                         <<"narration", MarshalString(req.Narration)>>,
                         <<"currencyCode", MarshalString(req.CurrencyCode)>>,
                         <<"recipientNames", MarshalString(req.RecipientNames)>>,
                         <<"transactionRef", MarshalString(req.TransactionRef)>>,
                         <<"transactionDate", MarshalString(req.TransactionDate)>>,
                         <<"callbackUrl", MarshalString(req.CallbackURL)>>>>)]

\* json.Marshal of a PaymentStatusRequest: both fields are omitempty
MarshalStatusRequest(req) ==
    [ok |-> TRUE,
     json |-> JObj((IF req.TransactionRef # ""
                    THEN <<<<"transactionRef", MarshalString(req.TransactionRef)>>>>
                    ELSE <<>>)
                   \o (IF req.TransactionID # ""
                       THEN <<<<"transactionId", MarshalString(req.TransactionID)>>>>
                       ELSE <<>>))]

\* json.Marshal of a CollectionStatementRequest: walletId is omitempty
MarshalStatementRequest(req) ==
    [ok |-> TRUE,
     json |-> JObj(<<<<"startDate", MarshalString(req.StartDate)>>,
                     <<"endDate", MarshalString(req.EndDate)>>>>
                   \o (IF req.WalletID # ""
                       THEN <<<<"walletId", MarshalString(req.WalletID)>>>>
                       ELSE <<>>))]

(***************************************************************************)
(* The HTTP transport adapter                                              *)
(***************************************************************************)
EndpointCollection == "/tembo/v1/collection"
EndpointCollectionStatus == "/tembo/v1/collection/status"
EndpointWalletCollectionBalance == "/tembo/v1/wallet/collection-balance"
EndpointWalletCollectionStatement == "/tembo/v1/wallet/collection-statement"
EndpointWalletMainBalance == "/tembo/v1/wallet/main-balance"
EndpointWalletMainStatement == "/tembo/v1/wallet/main-statement"
EndpointPaymentWalletToMobile == "/tembo/v1/payment/wallet-to-mobile"
EndpointPaymentStatus == "/tembo/v1/payment/status"

MethodPost == "POST"
StatusOK == 200

\* the context.Context a call is made with: one that is live, one that is
\* cancelled, or the nil interface value; ValidateWebhook takes none.  A
\* live context that the caller cancels while the call waits is cancelled
\* late
ContextLive == "live"
ContextCancelled == "cancelled"
ContextCancelledLate == "cancelled-late"
ContextNil == "nil"
NoContext == "none"
Contexts == {ContextLive, ContextCancelled, ContextNil}

\* "req_%d" of time.Now().UnixNano()
generateRequestID(t) == <<"req_", t>>

\* a faulty variant: the x-secret-key line is left out
NewRequestNoSecret(c, ctx, t, method, endpoint, body) ==
    [err |-> IF ctx = ContextNil THEN Errorf("net/http: nil Context") ELSE NilErr,
     req |-> [method |-> method,
              url |-> c.baseURL \o endpoint,
              header |-> [ContentType |-> "application/json",
                          xAccountID |-> c.accountID,
                          xRequestID |-> generateRequestID(t)],
              body |-> body]]

\* req, err := http.NewRequestWithContext(ctx, ...) and the four header
\* lines.  The method is POST and the URL is one of the two base URLs and a
\* constant path, so the one error is that of a nil context
NewRequest(c, ctx, t, method, endpoint, body) ==
    [err |-> IF ctx = ContextNil THEN Errorf("net/http: nil Context") ELSE NilErr,
     req |-> [method |-> method,
              url |-> c.baseURL \o endpoint,
              header |-> [ContentType |-> "application/json",
                          xAccountID |-> c.accountID,
                          xSecretKey |-> c.secretKey,
                          xRequestID |-> generateRequestID(t)],
              body |-> body]]

APIErrorOf(a) ==
    [NilErr EXCEPT !.type = "APIError", !.StatusCode = a.StatusCode,
                   !.Reason = a.Reason, !.Message = a.Message]

\* the Error struct (a business failure)
ErrorOf(code, message) ==
    [NilErr EXCEPT !.type = "Error", !.Code = code, !.Message = message]

\* resp.StatusCode != http.StatusOK
StatusNotOK(status) == status # StatusOK

\* a faulty variant: the test apiErr.StatusCode != 0 is left out
errorReplyOfAnyCode(status, body, apiErr) ==
    IF apiErr.ok
    THEN [resp |-> NilResp, err |-> APIErrorOf(apiErr.val)]
    ELSE [resp |-> NilResp,
          err |-> [Errorf("unexpected status code: ")
                     EXCEPT !.httpStatus = status, !.httpBody = body]]

\* apiErr is json.Unmarshal(respBody, &apiErr): the APIError when it decoded
\* with a non-zero statusCode, else the raw status and body
errorReplyOf(status, body, apiErr) ==
    IF apiErr.ok /\ apiErr.val.StatusCode # 0
    THEN [resp |-> NilResp, err |-> APIErrorOf(apiErr.val)]
    ELSE [resp |-> NilResp,
          err |-> [Errorf("unexpected status code: ")
                     EXCEPT !.httpStatus = status, !.httpBody = body]]

\* the reply to a status that is not OK
errorReply(status, body) == errorReplyOf(status, body, UnmarshalAPIError(body))

\* makeRequest once response is json.Unmarshal(respBody, &response)
makeRequestDecoded(response) ==
    IF ~response.ok
    THEN [resp |-> NilResp, err |-> Errorf("failed to unmarshal response: ")]
    ELSE IF response.val.StatusCode = StatusPaymentRejected
            \/ response.val.StatusCode = StatusGenericError
         THEN [resp |-> <<"collection", response.val>>,
               err |-> ErrorOf(response.val.StatusCode, "Request failed")]
    ELSE [resp |-> <<"collection", response.val>>, err |-> NilErr]

\* makeRequest, from the reply on
makeRequestReply(status, body) ==
    IF StatusNotOK(status) THEN errorReply(status, body)
    ELSE makeRequestDecoded(UnmarshalCollectionResponse(body))

\* result is json.Unmarshal(body, &result); kind names the Go type of result
decodedReply(kind, result) ==
    IF ~result.ok
    THEN [resp |-> NilResp, err |-> Errorf("failed to unmarshal response: ")]
    ELSE [resp |-> <<kind, result.val>>, err |-> NilErr]

\* GetCollectionBalance and GetMainBalance, from the reply on
balanceReply(status, body) ==
    IF StatusNotOK(status) THEN errorReply(status, body)
    ELSE decodedReply("balance", UnmarshalBalance(body))

\* GetCollectionStatement and GetMainStatement, from the reply on
statementReply(status, body) ==
    IF StatusNotOK(status) THEN errorReply(status, body)
    ELSE decodedReply("entries", UnmarshalEntries(body))

\* a faulty variant: && for ||
validateWebhookDecodedBothEmpty(webhook) ==
    IF ~webhook.ok
    THEN [resp |-> NilResp, err |-> Errorf("failed to parse webhook payload: ")]
    ELSE IF webhook.val.TransactionRef = "" /\ webhook.val.TransactionID = ""
         THEN [resp |-> NilResp,
               err |-> Errorf("invalid webhook payload: missing required fields")]
    ELSE [resp |-> <<"webhook", webhook.val>>, err |-> NilErr]

\* ValidateWebhook once webhook is json.Unmarshal(payload, &webhook)
validateWebhookDecoded(webhook) ==
    IF ~webhook.ok
    THEN [resp |-> NilResp, err |-> Errorf("failed to parse webhook payload: ")]
    ELSE IF webhook.val.TransactionRef = "" \/ webhook.val.TransactionID = ""
         THEN [resp |-> NilResp,
               err |-> Errorf("invalid webhook payload: missing required fields")]
    ELSE [resp |-> <<"webhook", webhook.val>>, err |-> NilErr]

\* ValidateWebhook
ValidateWebhookResult(payload) == validateWebhookDecoded(UnmarshalWebhookPayload(payload))

(***************************************************************************)
(* Input domains                                                           *)
(***************************************************************************)
Amounts == {Num(-1), NegZero, Num(0), Num(1), Num(2), NaN, PosInf, NegInf}
Texts == {"", "x"}
Channels ==
    {"", ChannelTZTigoC2B, ChannelTZAirtelC2B, ChannelTZHalotelC2B,
     ServiceTZTigoB2C, "tz-tigo-c2b"}
Services ==
    {"", ServiceTZTigoB2C, ServiceTZAirtelB2C, ServiceTZBankB2C,
     ChannelTZTigoC2B}
CountryCodes == {"", "TZ", "KE"}
CurrencyCodes == {"", "TZS", "USD"}

\* every MobileMoneyCollectionRequest over the domains
CollectionRequests ==
    [MSISDN : Texts, Channel : Channels, Amount : Amounts, Narration : Texts,
     TransactionRef : Texts, TransactionDate : Texts, CallbackURL : Texts]

\* every WalletToMobileRequest over the domains
WalletRequests ==
    [CountryCode : CountryCodes, AccountNo : Texts, ServiceCode : Services,
     Amount : Amounts, MSISDN : Texts, Narration : Texts,
     CurrencyCode : CurrencyCodes, RecipientNames : Texts,
     TransactionRef : Texts, TransactionDate : Texts, CallbackURL : Texts]

(***************************************************************************)
(* The client                                                              *)
(***************************************************************************)
Sandbox == "sandbox"
Production == "production"
DefaultBaseURLSandbox == "https://sandbox.temboplus.com"
DefaultBaseURLProduction == "https://api.temboplus.com"
DefaultTimeoutSeconds == 30

NewClient(config) ==
    [baseURL |-> IF config.Environmen = Production THEN DefaultBaseURLProduction
                 ELSE DefaultBaseURLSandbox,
     accountID |-> config.AccountID,
     secretKey |-> config.SecretKey,
     timeout |-> IF config.Timeout = 0 THEN DefaultTimeoutSeconds ELSE config.Timeout]

Configs ==
    [Environmen : {Sandbox, Production, ""}, AccountID : {"acct-1"},
     SecretKey : {"secret-1"}, Timeout : {0}]

\* a client at rest, no call made yet
Idle ==
    /\ now = 0
    /\ pc = "idle"
    /\ call = NoCall
    /\ wire = <<>>
    /\ reply = NoReply
    /\ ret = NoReturn

(***************************************************************************)
(* SpecValidate: the two validation functions on every request             *)
(***************************************************************************)
InitValidate ==
    /\ client = NewClient([Environmen |-> Sandbox, AccountID |-> "acct-1",
                           SecretKey |-> "secret-1", Timeout |-> 0])
    /\ Idle
    /\ input \in ({<<"collection", r>> : r \in CollectionRequests}
                    \cup {<<"wallet", r>> : r \in WalletRequests})
    /\ output = NoOutput

ValidateCollection ==
    /\ input[1] = "collection"
    /\ output = NoOutput
    /\ output' = <<"error", validateMobileMoneyRequest(input[2])>>
    /\ UNCHANGED <<client, now, pc, call, wire, reply, ret, input>>

ValidateWallet ==
    /\ input[1] = "wallet"
    /\ output = NoOutput
    /\ output' = <<"error", validateWalletToMobileRequest(input[2])>>
    /\ UNCHANGED <<client, now, pc, call, wire, reply, ret, input>>

NextValidate == ValidateCollection \/ ValidateWallet

SpecValidate == InitValidate /\ [][NextValidate]_vars

(***************************************************************************)
(* SpecRoundTrip: a collection request through json.Marshal and back       *)
(***************************************************************************)
\* texts with the characters json.Marshal escapes (the quote, the backslash,
\* <, > and &, control characters), and one that is not UTF-8
RoundTripTexts ==
    {"", "x", "a\"b\\c<d>&e", "l1\nl2\tend\r\f", "\\u0041\\n/", InvalidUTF8Text}

\* amounts: integers, fractions, both zeros, values written with an exponent,
\* values near the largest and the smallest normal float64, denormals down to
\* the smallest, and the values with no JSON encoding
RoundTripAmounts ==
    {Num(-1), Num(0), NegZero, Num(1), Num(5000), Dec(425, -1), Dec(1, -2),
     Dec(123456789, -3), Dec(1, -7), Dec(25, -9), Dec(1, 21), Dec(12, 20),
     Dec(17976931, 301), Dec(-22250738, -315), Dec(123456789, -323),
     Dec(1, -310), Dec(15, -324), Dec(1, -323), Dec(5, -324), Dec(-5, -324),
     NaN, PosInf, NegInf}

RoundTripRequests ==
    [MSISDN : RoundTripTexts, Channel : {"", ChannelTZTigoC2B},
     Amount : RoundTripAmounts, Narration : {"", "x\"y", InvalidUTF8Text},
     TransactionRef : {"", "x"}, TransactionDate : {"", "2024-01-02 03:04:05"},
     CallbackURL : {"", "https://example.com/hook?a=1&b=2"}]

InitRoundTrip ==
    /\ client = NewClient([Environmen |-> Sandbox, AccountID |-> "acct-1",
                           SecretKey |-> "secret-1", Timeout |-> 0])
    /\ Idle
    /\ input \in {<<"request", r>> : r \in RoundTripRequests}
    /\ output = NoOutput

\* json.Marshal(req)
Marshal ==
    /\ input[1] = "request"
    /\ output = NoOutput
    /\ output' = <<"marshalled", MarshalCollectionRequest(input[2])>>
    /\ UNCHANGED <<client, now, pc, call, wire, reply, ret, input>>

\* json.Unmarshal(data, &decoded) on what json.Marshal returned
Unmarshal ==
    /\ output[1] = "marshalled"
    /\ output[2].ok
    /\ output' = <<"unmarshalled", UnmarshalCollectionRequest(output[2].json)>>
    /\ UNCHANGED <<client, now, pc, call, wire, reply, ret, input>>

NextRoundTrip == Marshal \/ Unmarshal

SpecRoundTrip == InitRoundTrip /\ [][NextRoundTrip]_vars

(***************************************************************************)
(* SpecRefs: transaction references and the requests built with them       *)
(***************************************************************************)
\* the readings of the clock (now) in one second
TicksPerSecond == 2

\* the last reading of the clock
MaxRefClock == 5

\* time.Time.Unix(): the seconds of the reading t
Unix(t) == t \div TicksPerSecond

\* FormatMSISDN, phoneNumber a sequence of characters
FormatMSISDN(phoneNumber) ==
    LET noPlus == IF Len(phoneNumber) > 0 /\ phoneNumber[1] = "+"
                  THEN Tail(phoneNumber) ELSE phoneNumber
        noZero == IF Len(noPlus) > 0 /\ noPlus[1] = "0" THEN Tail(noPlus) ELSE noPlus
    IN  IF Len(noZero) = 9 /\ noZero[1] \in {"6", "7"}
        THEN <<"2", "5", "5">> \o noZero ELSE noZero

\* GenerateTransactionRef when time.Now() reads t: "%s_%d" of the prefix and
\* the seconds
GenerateTransactionRef(prefix, t) == <<prefix, Unix(t)>>

\* t.Format("2006-01-02 15:04:05"): the reading to the second
FormatTransactionDate(t) == <<"2006-01-02 15:04:05", Unix(t)>>

\* BuildCollectionRequest: t is its own reading of the clock (now), t2 the
\* reading GenerateTransactionRef takes after it
BuildCollectionRequest(phoneNumber, channel, amount, description, callbackURL, t, t2) ==
    [MSISDN |-> FormatMSISDN(phoneNumber),
     Channel |-> channel,
     Amount |-> amount,
     Narration |-> description,
     TransactionRef |-> GenerateTransactionRef("TXN", t2),
     TransactionDate |-> FormatTransactionDate(t),
     CallbackURL |-> callbackURL]

PhoneNumbers ==
    {<<"+", "2", "5", "5", "7", "1", "2", "3", "4", "5", "6", "7", "8">>,
     <<"0", "7", "1", "2", "3", "4", "5", "6", "7", "8">>,
     <<"6", "1", "2", "3", "4", "5", "6", "7", "8">>,
     <<"1", "2", "3">>,
     <<>>}

Prefixes == {"TXN", "PAY"}

NoRequest == <<"none", <<>>>>

InitRefs ==
    /\ client = NewClient([Environmen |-> Sandbox, AccountID |-> "acct-1",
                           SecretKey |-> "secret-1", Timeout |-> 0])
    /\ Idle
    /\ input = NoOutput
    /\ output = <<"refs", <<>>>>

\* a call of GenerateTransactionRef; output keeps what two calls returned
CallGenerateTransactionRef ==
    /\ output[1] = "refs"
    /\ Len(output[2]) < 2
    /\ \E prefix \in Prefixes :
        output' = <<"refs", Append(output[2],
                       [ref |-> GenerateTransactionRef(prefix, now),
                        request |-> NoRequest])>>
    /\ UNCHANGED <<client, now, pc, call, wire, reply, ret, input>>

\* a call of BuildCollectionRequest: the clock may move between its two
\* readings
CallBuildCollectionRequest ==
    /\ output[1] = "refs"
    /\ Len(output[2]) < 2
    /\ \E phoneNumber \in PhoneNumbers, t2 \in {now, now + 1} :
        /\ t2 <= MaxRefClock
        /\ now' = t2
        /\ output' = <<"refs", Append(output[2],
              [ref |-> GenerateTransactionRef("TXN", t2),
               request |-> <<"collection",
                   BuildCollectionRequest(phoneNumber, ChannelTZTigoC2B, Num(5000),
                       "x", "https://your-app.com/webhooks/temboplus", now, t2)>>])>>
    /\ UNCHANGED <<client, pc, call, wire, reply, ret, input>>

\* time.Sleep(1 * time.Second) between two calls
Sleep ==
    /\ output[1] = "refs"
    /\ now + TicksPerSecond <= MaxRefClock
    /\ now' = now + TicksPerSecond
    /\ UNCHANGED <<client, pc, call, wire, reply, ret, input, output>>

\* the clock moves on
TickRefs ==
    /\ output[1] = "refs"
    /\ now < MaxRefClock
    /\ now' = now + 1
    /\ UNCHANGED <<client, pc, call, wire, reply, ret, input, output>>

NextRefs ==
    \/ CallGenerateTransactionRef
    \/ CallBuildCollectionRequest
    \/ Sleep
    \/ TickRefs

SpecRefs == InitRefs /\ [][NextRefs]_vars

(***************************************************************************)
(* SpecDecode: NullableFloat64.UnmarshalJSON on every token                *)
(***************************************************************************)
MaxTokenLen == 4

TokenAlphabet == {"\"", "\\", "0", "1", ".", "-", "e", "n", " "}

SeqsUpTo(A, n) == UNION {[1..k -> A] : k \in 0..n}

NamedTokens ==
    {<<"n", "u", "l", "l">>,
     <<"\"", "\\", "u", "0", "0", "3", "1", "\"">>,
     <<"\"", "\\", "u", "0", "0", "3", "1", "\\", "u", "0", "0", "3", "2", "\"">>,
     <<"\"", "\\", "u", "0", "0", "E", "9", "\"">>,
     <<"\"", "\\", "u", "0", "0", "3", "\"">>,
     <<"\"", "\\", "u", "d", "8", "3", "d", "\\", "u", "d", "e", "0", "0", "\"">>,
     <<"\"", "\\", "u", "d", "8", "3", "d", "1", "\"">>,
     <<"\"", "a", "\\", "\"", "b", "\"">>,
     <<"\"", "1", "\\", "n", "\"">>,
     <<"\"", "\\", "t", "1", "\\", "r", "\"">>,
     <<"\"", "1", "\\", "b", "\"">>,
     <<"\"", "\\", "/", "\"">>,
     <<"\"", "1", "\\", "x", "\"">>,
     <<"\"", "1", "\t", "\"">>,
     <<"t", "r", "u", "e">>,
     <<"f", "a", "l", "s", "e">>,
     <<"{", "}">>,
     <<"[", "]">>,
     <<"[", "1", "]">>,
     <<"4", "2", ".", "5">>,
     <<"\"", "4", "2", ".", "5", "\"">>,
     <<"\"", "4", "2", ".", "5", "0", "\"">>,
     <<"4", ".", "2", "5", "e", "1">>,
     <<"\"", "a", "b", "c", "\"">>,
     <<"\"", "n", "u", "l", "l", "\"">>,
     <<"\"", "t", "r", "u", "e", "\"">>,
     <<"\"", "-", "1", "\"">>,
     <<"1", "e", "9", "9", "9">>,
     <<"1", "e", "3", "0", "8">>,
     <<"2", "e", "3", "0", "8">>,
     <<"\"", "1", "e", "9", "9", "9", "\"">>,
     <<"1", "e", "-", "9", "9", "9">>,
     <<"-", "1", "e", "-", "9", "9", "9">>,
     <<"4", "e", "-", "3", "2", "4">>,
     <<"2", "e", "-", "3", "2", "4">>,
     <<"1", "E", "+", "2">>}

\* the bytes the decoder hands over carry no surrounding white space
Tokens == {t \in SeqsUpTo(TokenAlphabet, MaxTokenLen) \cup NamedTokens : Trim(t) = t}

InitDecode ==
    /\ client = NewClient([Environmen |-> Sandbox, AccountID |-> "acct-1",
                           SecretKey |-> "secret-1", Timeout |-> 0])
    /\ Idle
    /\ input \in {<<"token", t>> : t \in Tokens}
    /\ output = NoOutput

Decode ==
    /\ input[1] = "token"
    /\ output = NoOutput
    /\ output' = <<"decoded", NullableFloat64UnmarshalJSON(input[2])>>
    /\ UNCHANGED <<client, now, pc, call, wire, reply, ret, input>>

NextDecode == Decode

SpecDecode == InitDecode /\ [][NextDecode]_vars

(***************************************************************************)
(* SpecClassify: IsSuccessfulWebhook and IsFailedWebhook on every payload   *)
(***************************************************************************)
IsSuccessfulWebhook(webhook) == webhook.StatusCode = StatusPaymentAccepted

\* a faulty variant: GENERIC_ERROR is forgotten
IsFailedWebhookRejectedOnly(webhook) == webhook.StatusCode = StatusPaymentRejected

IsFailedWebhook(webhook) ==
    webhook.StatusCode = StatusPaymentRejected \/ webhook.StatusCode = StatusGenericError

WebhookStatusCodes ==
    {StatusPendingACK, StatusPaymentAccepted, StatusPaymentRejected,
     StatusGenericError, "", "UNKNOWN", "payment_accepted", "PAYMENT_ACCEPTED "}

WebhookPayloads ==
    [StatusCode : WebhookStatusCodes, TransactionRef : {"", "REF-1", "REF-2"},
     TransactionID : {"", "TXN-1"}]

\* no helper has run: <<>> is "not called", <<b>> the boolean returned; webhook
\* is the payload the pointer leads to
NotClassified(webhook) == [successful |-> <<>>, failed |-> <<>>, webhook |-> webhook]

InitClassify ==
    /\ client = NewClient([Environmen |-> Sandbox, AccountID |-> "acct-1",
                           SecretKey |-> "secret-1", Timeout |-> 0])
    /\ Idle
    /\ input \in {<<"webhook", w>> : w \in WebhookPayloads}
    /\ output = <<"classified", NotClassified(input[2])>>

ClassifySuccessful ==
    /\ output[1] = "classified"
    /\ output[2].successful = <<>>
    /\ output' = <<"classified",
                   [output[2] EXCEPT !.successful = <<IsSuccessfulWebhook(output[2].webhook)>>]>>
    /\ UNCHANGED <<client, now, pc, call, wire, reply, ret, input>>

ClassifyFailed ==
    /\ output[1] = "classified"
    /\ output[2].failed = <<>>
    /\ output' = <<"classified",
                   [output[2] EXCEPT !.failed = <<IsFailedWebhook(output[2].webhook)>>]>>
    /\ UNCHANGED <<client, now, pc, call, wire, reply, ret, input>>

NextClassify == ClassifySuccessful \/ ClassifyFailed

SpecClassify == InitClassify /\ [][NextClassify]_vars

(***************************************************************************)
(* Spec: the client's operations, one call at a time.  A call that reaches *)
(* httpClient.Do puts its request on the wire and waits; the transport     *)
(* then fails, or delivers a status and a body, or a status and a body     *)
(* that cannot be read.                                                    *)
(***************************************************************************)
MaxClock == 1
MaxEntries == 2

\* r, and r with one of `fields` left empty
OneEmptied(r, fields) == {r} \cup {[r EXCEPT ![f] = ""] : f \in fields}

\* the requests the calls are made with: at most one text field left empty
CallCollectionRequests ==
    UNION {OneEmptied(r, {"MSISDN", "Narration", "TransactionRef",
                          "TransactionDate", "CallbackURL"}) :
             r \in [MSISDN : {"x"}, Channel : Channels, Amount : Amounts,
                    Narration : {"x"}, TransactionRef : {"x"},
                    TransactionDate : {"x"}, CallbackURL : {"x"}]}

CallWalletRequests ==
    UNION {OneEmptied(r, {"AccountNo", "MSISDN", "Narration", "RecipientNames",
                          "TransactionRef", "TransactionDate", "CallbackURL"}) :
             r \in [CountryCode : CountryCodes, AccountNo : {"x"},
                    ServiceCode : Services, Amount : Amounts, MSISDN : {"x"},
                    Narration : {"x"}, CurrencyCode : CurrencyCodes,
                    RecipientNames : {"x"}, TransactionRef : {"x"},
                    TransactionDate : {"x"}, CallbackURL : {"x"}]}

StatusRequests == [TransactionRef : {"", "REF-1"}, TransactionID : {"", "TXN-1"}]

StatementRequests ==
    {[StartDate |-> "2024-01-01", EndDate |-> "2024-01-31", WalletID |-> ""],
     [StartDate |-> "2024-01-01", EndDate |-> "2024-01-31", WalletID |-> "W-1"],
     [StartDate |-> "", EndDate |-> "", WalletID |-> ""]}

HTTPStatuses == {200, 201, 299, 401, 500}

EmptyObject == JObj(<<>>)

ResponseBody(sc) ==
    JObj(<<<<"statusCode", JStr(sc)>>, <<"transactionRef", JStr("REF-1")>>,
          <<"transactionId", JStr("TXN-1")>>>>)

BalanceBody(available) ==
    JObj(<<<<"availableBalance", available>>,
          <<"currentBalance", JNum(<<"1", "2", ".", "5">>)>>,
          <<"accountNo", JStr("ACC-1")>>, <<"accountStatus", JStr("ACTIVE")>>,
          <<"accountName", JStr("Main")>>>>)

\* bodies of every shape, sent in reply to every operation
CommonBodies ==
    {JInvalid, JNull, EmptyObject, JArr(<<>>), JStr("OK"), JNum(<<"1">>)}
    \cup {ResponseBody(sc) :
            sc \in {StatusPendingACK, StatusPaymentAccepted, StatusPaymentRejected,
                    StatusGenericError, "", "UNKNOWN"}}
    \cup {JObj(<<<<"statusCode", JStr(StatusPaymentRejected)>>>>),
          JObj(<<<<"statusCode", JNum(<<"4", "0", "1">>)>>,
                <<"reason", JStr("INVALID_CREDENTIALS")>>>>),
          JObj(<<<<"statusCode", JNum(<<"0">>)>>, <<"reason", JStr("ZERO")>>>>),
          JObj(<<<<"statusCode", JNum(<<"4", "0", "1", ".", "5">>)>>,
                <<"reason", JStr("FRACTION")>>>>),
          JObj(<<<<"statusCode", JStr("401")>>, <<"reason", JStr("QUOTED")>>>>),
          JObj(<<<<"reason", JStr("NO_CODE")>>>>),
          JObj(<<<<"statusCode", JNum(<<"5", "0", "0">>)>>, <<"message", JStr("boom")>>>>),
          JObj(<<<<"statusCode", JNum(<<"4", "0", "1">>)>>, <<"reason", JNum(<<"5">>)>>>>),
          JObj(<<<<"statusCode", JNull>>, <<"transactionRef", JStr("REF-1")>>,
                <<"transactionId", JStr("TXN-1")>>>>),
          JObj(<<<<"transactionRef", JStr("REF-1")>>, <<"transactionId", JStr("TXN-1")>>>>),
          JObj(<<<<"statusCode", JStr(StatusPaymentAccepted)>>,
                <<"transactionRef", JStr("REF-1")>>>>),
          JObj(<<<<"statusCode", JStr(StatusPaymentAccepted)>>,
                <<"transactionRef", JStr("")>>, <<"transactionId", JStr("TXN-1")>>>>),
          JObj(<<<<"statusCode", JStr(StatusPendingACK)>>,
                <<"transactionRef", JBool>>, <<"transactionId", JStr("TXN-1")>>>>),
          BalanceBody(JNum(<<"1", "0">>)),
          BalanceBody(JStr("10")),
          \* keys written in another case, a key given twice
          JObj(<<<<"StatusCode", JStr(StatusPaymentRejected)>>,
                <<"transactionRef", JStr("REF-1")>>, <<"transactionId", JStr("TXN-1")>>>>),
          JObj(<<<<"statusCode", JStr(StatusPaymentAccepted)>>,
                <<"STATUSCODE", JStr(StatusGenericError)>>,
                <<"transactionRef", JStr("REF-1")>>, <<"TransactionID", JStr("TXN-1")>>>>),
          JObj(<<<<"STATUSCODE", JNum(<<"4", "0", "3">>)>>,
                <<"Reason", JStr("FORBIDDEN")>>>>),
          JObj(<<<<"AvailableBalance", JNum(<<"7">>)>>>>),
          \* keys with the long s and with the Kelvin sign
          JMembers(<<<<<<LongS>> \o Chars("tatusCode"), JStr(StatusPaymentRejected)>>,
                     <<Chars("transactionRef"), JStr("REF-1")>>,
                     <<Chars("transactionId"), JStr("TXN-1")>>>>),
          JMembers(<<<<Chars("statusCode"), JStr(StatusPaymentAccepted)>>,
                     <<Chars("tran") \o <<LongS>> \o Chars("actionRef"), JStr("REF-2")>>,
                     <<Chars("transactionId"), JStr("TXN-1")>>,
                     <<Chars("callbac") \o <<KelvinSign>> \o Chars("Url"), JStr("x")>>>>),
          \* a status code of 2^63
          JObj(<<<<"statusCode", JNum(MinInt64Digits)>>, <<"reason", JStr("HUGE")>>>>)}

\* a statement entry, every field well-formed but for the credited amount
EntryBody(credited) ==
    JObj(<<<<"accountNo", JStr("ACC-1")>>, <<"debitOrCredit", JStr("C")>>,
          <<"tranRefNo", JStr("T-1")>>, <<"narration", JStr("n")>>,
          <<"txnDate", JStr("2024-01-02")>>, <<"valueDate", JStr("2024-01-02")>>,
          <<"amountCredited", credited>>, <<"amountDebited", JRaw(NullLiteral)>>,
          <<"balance", JNum(<<"1", "0", "0">>)>>>>)

\* the amounts of a statement entry, number or not
AmountValues ==
    {JRaw(<<"4", "2", ".", "5">>),
     JRaw(<<"\"", "4", "2", ".", "5", "\"">>),
     JRaw(<<"\"", "\"">>),
     JRaw(NullLiteral),
     JRaw(<<"\"", "a", "b", "c", "\"">>),
     JRaw(<<"\"", "n", "u", "l", "l", "\"">>),
     JRaw(<<"t", "r", "u", "e">>),
     JRaw(<<"{", "}">>)}

MalformedAmountValues ==
    AmountValues \ {JRaw(<<"4", "2", ".", "5">>), JRaw(<<"\"", "4", "2", ".", "5", "\"">>)}

EntryBodies ==
    {EntryBody(a) : a \in AmountValues}
    \cup {JObj(<<<<"accountNo", JStr("ACC-2")>>, <<"balance", JStr("100")>>>>),
          JObj(<<<<"accountNo", JStr("ACC-3")>>>>),
          JObj(<<<<"AccountNo", JStr("ACC-4")>>, <<"AmountCredited", JRaw(<<"5">>)>>>>)}

\* the entries that follow the first one of a statement
FurtherEntryBodies ==
    {EntryBody(JRaw(<<"4", "2", ".", "5">>)),
     EntryBody(JRaw(NullLiteral)),
     EntryBody(JRaw(<<"\"", "a", "b", "c", "\"">>)),
     JObj(<<<<"AccountNo", JStr("ACC-4")>>, <<"AmountCredited", JRaw(<<"5">>)>>>>)}

\* statements of up to MaxEntries entries: any first entry, then further ones
StatementBodies ==
    {JArr(<<>>)}
    \cup {JArr(<<first>> \o rest) :
            first \in EntryBodies,
            rest \in SeqsUpTo(FurtherEntryBodies, MaxEntries - 1)}

IsStatement(op) == op \in {"GetCollectionStatement", "GetMainStatement"}
IsBalance(op) == op \in {"GetCollectionBalance", "GetMainBalance"}

StatementOpBodies == CommonBodies \cup StatementBodies

Bodies(op) == IF IsStatement(op) THEN StatementOpBodies ELSE CommonBodies

\* two goroutines call the one client: the call of the goroutine that is not
\* running is kept in input
Shared == input[1] = "parked"

\* a single caller whose calls are followed to their end
Followed == input[1] = "followed"

\* the calls of two goroutines, and the calls followed to their end, draw
\* their inputs from the sets below: a request that passes validation and one
\* that does not, a reply of each kind
FewInputs == Shared \/ Followed

SharedCollectionRequests ==
    {r \in CallCollectionRequests :
        r.Channel = ChannelTZTigoC2B /\ r.Amount = Num(1)
        /\ r.MSISDN # "" /\ r.Narration # "" /\ r.TransactionRef # ""
        /\ r.TransactionDate # ""}

SharedWalletRequests ==
    {r \in CallWalletRequests :
        r.CountryCode = "TZ" /\ r.CurrencyCode = "TZS"
        /\ r.ServiceCode \in {ServiceTZTigoB2C, ServiceTZBankB2C}
        /\ r.Amount = Num(1)
        /\ r.AccountNo # "" /\ r.MSISDN # "" /\ r.Narration # ""
        /\ r.RecipientNames # "" /\ r.TransactionRef # ""
        /\ r.TransactionDate # ""}

SharedStatusRequests ==
    {r \in StatusRequests : (r.TransactionRef = "") <=> (r.TransactionID = "")}

SharedStatementRequests == {r \in StatementRequests : r.WalletID # ""}

SharedBodies ==
    {JInvalid, ResponseBody(StatusPaymentAccepted),
     ResponseBody(StatusPaymentRejected)}

CollectionRequestsOfCall ==
    IF FewInputs THEN SharedCollectionRequests ELSE CallCollectionRequests
WalletRequestsOfCall ==
    IF FewInputs THEN SharedWalletRequests ELSE CallWalletRequests
StatusRequestsOfCall == IF FewInputs THEN SharedStatusRequests ELSE StatusRequests
StatementRequestsOfCall ==
    IF FewInputs THEN SharedStatementRequests ELSE StatementRequests
WebhooksOfCall == IF FewInputs THEN SharedBodies ELSE CommonBodies
BodiesOfReply(op) == IF FewInputs THEN SharedBodies ELSE Bodies(op)
\* two concurrent calls are made with a context that is not yet cancelled
ContextsOfCall == IF Shared THEN {ContextLive, ContextNil} ELSE Contexts
\* the replies to two concurrent calls have the status 200 (the three bodies
\* give a success, a rejection and a decoding failure)
StatusesOfReply ==
    IF Shared THEN {StatusOK} ELSE IF Followed THEN {200, 500} ELSE HTTPStatuses

Init ==
    /\ client \in {NewClient(config) : config \in Configs}
    /\ Idle
    /\ input = NoOutput
    /\ output = NoOutput

\* a faulty variant: the error is not handed on (return nil, nil)
ReturnEarlyNoError(err) ==
    /\ pc' = "done"
    /\ wire' = wire
    /\ ret' = [resp |-> NilResp, err |-> NilErr]

\* return before anything is sent
ReturnEarly(err) ==
    /\ pc' = "done"
    /\ wire' = wire
    /\ ret' = [resp |-> NilResp, err |-> err]

\* a faulty variant: the request is sent again
DoTwice(req) ==
    /\ pc' = "inflight"
    /\ wire' = Append(Append(wire, req), req)
    /\ ret' = ret

\* httpClient.Do(req)
Do(req) ==
    /\ pc' = "inflight"
    /\ wire' = Append(wire, req)
    /\ ret' = ret

\* if err != nil { return nil, fmt.Errorf("failed to create request: %w", err) },
\* else the headers are set and the request goes to httpClient.Do
DoUnlessError(r) ==
    IF r.err.type # "nil" THEN ReturnEarly(Errorf("failed to create request: "))
    ELSE Do(r.req)

\* makeRequest, up to httpClient.Do: m is json.Marshal(payload)
makeRequest(ctx, method, endpoint, m) ==
    IF ~m.ok THEN ReturnEarly(Errorf("failed to marshal request: "))
    ELSE DoUnlessError(NewRequest(client, ctx, now, method, endpoint, m.json))

CollectFromMobileMoney ==
    /\ pc = "idle"
    /\ \E req \in CollectionRequestsOfCall, ctx \in ContextsOfCall :
        /\ call' = <<"CollectFromMobileMoney", req, ctx>>
        /\ IF validateMobileMoneyRequest(req).type # "nil"
           THEN ReturnEarly(validateMobileMoneyRequest(req))
           ELSE makeRequest(ctx, MethodPost, EndpointCollection, MarshalCollectionRequest(req))
    /\ UNCHANGED <<client, now, reply, input, output>>

\* PayWalletToMobile on req, whoever calls it
payWalletToMobile(ctx, req) ==
    IF validateWalletToMobileRequest(req).type # "nil"
    THEN ReturnEarly(validateWalletToMobileRequest(req))
    ELSE makeRequest(ctx, MethodPost, EndpointPaymentWalletToMobile, MarshalWalletRequest(req))

PayWalletToMobile ==
    /\ pc = "idle"
    /\ \E req \in WalletRequestsOfCall, ctx \in ContextsOfCall :
        /\ call' = <<"PayWalletToMobile", req, ctx>>
        /\ payWalletToMobile(ctx, req)
    /\ UNCHANGED <<client, now, reply, input, output>>

\* a faulty variant: the service code is overridden, whatever the caller gave
bankServiceCodeOverride(req) == [req EXCEPT !.ServiceCode = ServiceTZBankB2C]

\* the request PayWalletToBank goes on with: an empty service code is the bank's
bankServiceCode(req) ==
    IF req.ServiceCode = "" THEN [req EXCEPT !.ServiceCode = ServiceTZBankB2C] ELSE req

\* PayWalletToBank once the service code is defaulted
payWalletToBank(ctx, req) ==
    IF req.ServiceCode # ServiceTZBankB2C
    THEN ReturnEarly(Errorf("serviceCode must be %s for bank payouts"))
    ELSE payWalletToMobile(ctx, req)

PayWalletToBank ==
    /\ pc = "idle"
    /\ \E req \in WalletRequestsOfCall, ctx \in ContextsOfCall :
        /\ call' = <<"PayWalletToBank", req, ctx>>
        /\ payWalletToBank(ctx, bankServiceCode(req))
    /\ UNCHANGED <<client, now, reply, input, output>>

\* a faulty variant: || for &&
missingIdentifiersEither(req) == req.TransactionRef = "" \/ req.TransactionID = ""

\* req.TransactionRef == "" && req.TransactionID == ""
missingIdentifiers(req) == req.TransactionRef = "" /\ req.TransactionID = ""

GetCollectionStatus ==
    /\ pc = "idle"
    /\ \E req \in StatusRequestsOfCall, ctx \in ContextsOfCall :
        /\ call' = <<"GetCollectionStatus", req, ctx>>
        /\ IF missingIdentifiers(req)
           THEN ReturnEarly(Errorf("either transactionRef or transactionId is required"))
           ELSE makeRequest(ctx, MethodPost, EndpointCollectionStatus, MarshalStatusRequest(req))
    /\ UNCHANGED <<client, now, reply, input, output>>

\* a faulty variant: the payment status is asked at the collection's endpoint
GetPaymentStatusAtCollectionStatus ==
    /\ pc = "idle"
    /\ \E req \in StatusRequestsOfCall, ctx \in ContextsOfCall :
        /\ call' = <<"GetPaymentStatus", req, ctx>>
        /\ IF missingIdentifiers(req)
           THEN ReturnEarly(Errorf("either transactionRef or transactionId is required"))
           ELSE makeRequest(ctx, MethodPost, EndpointCollectionStatus, MarshalStatusRequest(req))
    /\ UNCHANGED <<client, now, reply, input, output>>

GetPaymentStatus ==
    /\ pc = "idle"
    /\ \E req \in StatusRequestsOfCall, ctx \in ContextsOfCall :
        /\ call' = <<"GetPaymentStatus", req, ctx>>
        /\ IF missingIdentifiers(req)
           THEN ReturnEarly(Errorf("either transactionRef or transactionId is required"))
           ELSE makeRequest(ctx, MethodPost, EndpointPaymentStatus, MarshalStatusRequest(req))
    /\ UNCHANGED <<client, now, reply, input, output>>

GetCollectionBalance ==
    /\ pc = "idle"
    /\ \E ctx \in ContextsOfCall :
        /\ call' = <<"GetCollectionBalance", <<>>, ctx>>
        /\ DoUnlessError(NewRequest(client, ctx, now, MethodPost, EndpointWalletCollectionBalance, NoBody))
    /\ UNCHANGED <<client, now, reply, input, output>>

GetMainBalance ==
    /\ pc = "idle"
    /\ \E ctx \in ContextsOfCall :
        /\ call' = <<"GetMainBalance", <<>>, ctx>>
        /\ DoUnlessError(NewRequest(client, ctx, now, MethodPost, EndpointWalletMainBalance, NoBody))
    /\ UNCHANGED <<client, now, reply, input, output>>

\* the statement calls marshal the request themselves (it cannot fail)
GetCollectionStatement ==
    /\ pc = "idle"
    /\ \E reqBody \in StatementRequestsOfCall, ctx \in ContextsOfCall :
        /\ call' = <<"GetCollectionStatement", reqBody, ctx>>
        /\ DoUnlessError(NewRequest(client, ctx, now, MethodPost, EndpointWalletCollectionStatement,
                                    MarshalStatementRequest(reqBody).json))
    /\ UNCHANGED <<client, now, reply, input, output>>

GetMainStatement ==
    /\ pc = "idle"
    /\ \E reqBody \in StatementRequestsOfCall, ctx \in ContextsOfCall :
        /\ call' = <<"GetMainStatement", reqBody, ctx>>
        /\ DoUnlessError(NewRequest(client, ctx, now, MethodPost, EndpointWalletMainStatement,
                                    MarshalStatementRequest(reqBody).json))
    /\ UNCHANGED <<client, now, reply, input, output>>

ValidateWebhook ==
    /\ pc = "idle"
    /\ \E payload \in WebhooksOfCall :
        /\ call' = <<"ValidateWebhook", payload, NoContext>>
        /\ ret' = ValidateWebhookResult(payload)
    /\ pc' = "done"
    /\ UNCHANGED <<client, now, wire, reply, input, output>>

\* what the operation op makes of a reply
ReplyResult(op, status, body) ==
    IF IsStatement(op) THEN statementReply(status, body)
    ELSE IF IsBalance(op) THEN balanceReply(status, body)
    ELSE makeRequestReply(status, body)

\* the caller cancels the context of the call that waits, in httpClient.Do
\* or in io.ReadAll
Cancel ==
    /\ pc \in {"inflight", "reading"}
    /\ call[3] = ContextLive
    /\ call' = <<call[1], call[2], ContextCancelledLate>>
    /\ UNCHANGED <<client, now, pc, wire, reply, ret, input, output>>

\* a faulty variant: Do hands back a response although the context was
\* cancelled before the call
DoReturnsIgnoringContext ==
    /\ pc = "inflight"
    /\ \E status \in StatusesOfReply :
        reply' = [kind |-> "headers", status |-> status, body |-> NoBody]
    /\ pc' = "reading"
    /\ UNCHANGED <<client, now, call, wire, ret, input, output>>

\* resp, err := c.httpClient.Do(req) returns a response: the status line and
\* the headers have arrived.  With a context cancelled before the call Do
\* tests it first and returns its error (DoFails).  With a context cancelled
\* while Do waits, the transport takes whichever of the response and the
\* cancellation it sees, and does not look at the context again: Do returns
\* the response or the error
DoReturns ==
    /\ pc = "inflight"
    /\ call[3] # ContextCancelled
    /\ \E status \in StatusesOfReply :
        reply' = [kind |-> "headers", status |-> status, body |-> NoBody]
    /\ pc' = "reading"
    /\ UNCHANGED <<client, now, call, wire, ret, input, output>>

\* httpClient.Do returns an error: no connection, a timeout, a cancelled context
DoFails ==
    /\ pc = "inflight"
    /\ reply' = [kind |-> "transport-error", status |-> 0, body |-> NoBody]
    /\ ret' = [resp |-> NilResp, err |-> Errorf("request failed: ")]
    /\ pc' = "done"
    /\ UNCHANGED <<client, now, call, wire, input, output>>

\* io.ReadAll(resp.Body) returns the body, and the rest of the operation
\* runs: the status is tested and the body decoded.  The context is not
\* looked at: a body that has arrived is read although the caller has
\* cancelled since
Reply ==
    /\ pc = "reading"
    /\ \E body \in BodiesOfReply(call[1]) :
        /\ reply' = [kind |-> "response", status |-> reply.status, body |-> body]
        /\ ret' = ReplyResult(call[1], reply.status, body)
    /\ pc' = "done"
    /\ UNCHANGED <<client, now, call, wire, input, output>>

\* io.ReadAll(resp.Body) returns an error: the connection is lost, the
\* timeout is over, the context is cancelled
ReadFails ==
    /\ pc = "reading"
    /\ reply' = [kind |-> "read-error", status |-> reply.status, body |-> NoBody]
    /\ ret' = [resp |-> NilResp, err |-> Errorf("failed to read response: ")]
    /\ pc' = "done"
    /\ UNCHANGED <<client, now, call, wire, input, output>>

\* the caller takes the result; the client is ready for the next call
Return ==
    /\ pc = "done"
    /\ pc' = "idle"
    /\ call' = NoCall
    /\ wire' = <<>>
    /\ reply' = NoReply
    /\ ret' = NoReturn
    /\ UNCHANGED <<client, now, input, output>>

\* time passes
Tick ==
    /\ now < MaxClock
    /\ now' = now + 1
    /\ UNCHANGED <<client, pc, call, wire, reply, ret, input, output>>

Next ==
    \/ CollectFromMobileMoney
    \/ PayWalletToMobile
    \/ PayWalletToBank
    \/ GetCollectionStatus
    \/ GetPaymentStatus
    \/ GetCollectionBalance
    \/ GetMainBalance
    \/ GetCollectionStatement
    \/ GetMainStatement
    \/ ValidateWebhook
    \/ Cancel
    \/ DoReturns
    \/ DoFails
    \/ Reply
    \/ ReadFails
    \/ Return
    \/ Tick

Spec == Init /\ [][Next]_vars

\* httpClient.Do and io.ReadAll return: the http.Client has a Timeout (30
\* seconds unless configured), and a cancelled context ends them at once
Completes == DoReturns \/ DoFails \/ Reply \/ ReadFails

InitLive ==
    /\ client \in {NewClient(config) : config \in Configs}
    /\ Idle
    /\ input = <<"followed", <<>>>>
    /\ output = NoOutput

SpecLive == InitLive /\ [][Next]_vars /\ WF_vars(Completes)

(***************************************************************************)
(* Two goroutines calling one client (SpecConcurrent)                      *)
(***************************************************************************)
\* the call of the running goroutine: its arguments and locals, the request
\* and the response it holds.  None of it is a field of the Client
Running == [pc |-> pc, call |-> call, wire |-> wire, reply |-> reply, ret |-> ret]

Parked == input[2]

\* a faulty variant: the goroutine resumes with the result of the other one
SwitchSharingResult ==
    /\ Shared
    /\ pc' = Parked.pc
    /\ call' = Parked.call
    /\ wire' = Parked.wire
    /\ reply' = Parked.reply
    /\ ret' = IF Parked.pc = "done" /\ pc = "done" THEN ret ELSE Parked.ret
    /\ input' = <<"parked", Running>>
    /\ UNCHANGED <<client, now, output>>

\* the scheduler runs the other goroutine: each resumes where it stopped
Switch ==
    /\ Shared
    /\ pc' = Parked.pc
    /\ call' = Parked.call
    /\ wire' = Parked.wire
    /\ reply' = Parked.reply
    /\ ret' = Parked.ret
    /\ input' = <<"parked", Running>>
    /\ UNCHANGED <<client, now, output>>

\* two goroutines share a client of the sandbox
InitConcurrent ==
    /\ client \in {NewClient(config) : config \in {c \in Configs : c.Environmen = Sandbox}}
    /\ Idle
    /\ input = <<"parked", [pc |-> "idle", call |-> NoCall, wire |-> <<>>,
                            reply |-> NoReply, ret |-> NoReturn]>>
    /\ output = NoOutput

NextConcurrent ==
    \/ Next
    \/ Switch

SpecConcurrent == InitConcurrent /\ [][NextConcurrent]_vars

(***************************************************************************)
(* Claims about the pure functions (SpecDecode, SpecValidate)              *)
(***************************************************************************)

\* a number literal whose value a float64 holds
IsFloat64Literal(b) == IsNumberLiteral(b) /\ ParseFloat(b).ok

\* C6: UnmarshalJSON returns no error; the value is present exactly when the
\* token is a JSON number or a JSON string whose content is a JSON number
\* (42.5 and "42.5" give present 42.5), and absent for null, "", "abc",
\* "null", "true" and every other token.  A number is one that a float64
\* holds (1e999 is none), and white space around the number inside the string
\* is read as part of the number.
C6_PresentIffNumber ==
    output[1] = "decoded" =>
        /\ output[2].err.type = "nil"
        /\ (output[2].Value # Absent) <=>
              \/ IsFloat64Literal(input[2])
              \/ IsStringLiteral(input[2]) /\ IsFloat64Literal(Trim(Unquote(input[2])))
        /\ input[2] \in {<<"4", "2", ".", "5">>, <<"\"", "4", "2", ".", "5", "\"">>}
              => output[2].Value = Present(Dec(425, -1))

\* C8: collection validation accepts exactly the requests with every text
\* field non-empty, amount > 0 and a supported channel.
C8_CollectionValidIff ==
    (input[1] = "collection" /\ output[1] = "error") =>
        LET req == input[2]
        IN  (output[2].type = "nil") <=>
              /\ req.MSISDN # "" /\ req.Channel # "" /\ req.Narration # ""
              /\ req.TransactionRef # "" /\ req.TransactionDate # ""
              /\ req.CallbackURL # ""
              /\ FloatGtZero(req.Amount)
              /\ req.Channel \in {"TZ-TIGO-C2B", "TZ-AIRTEL-C2B", "TZ-HALOTEL-C2B"}

\* C9: disbursement validation accepts exactly the requests with country TZ,
\* currency TZS, a supported service code, amount > 0 and every other field
\* non-empty; collection and disbursement validation reject amount <= 0.
C9_WalletValidIff ==
    /\ (input[1] = "wallet" /\ output[1] = "error") =>
        LET req == input[2]
        IN  (output[2].type = "nil") <=>
              /\ req.CountryCode = "TZ" /\ req.CurrencyCode = "TZS"
              /\ req.ServiceCode \in {"TZ-TIGO-B2C", "TZ-AIRTEL-B2C", "TZ-BANK-B2C"}
              /\ FloatGtZero(req.Amount)
              /\ req.AccountNo # "" /\ req.MSISDN # "" /\ req.Narration # ""
              /\ req.RecipientNames # "" /\ req.TransactionRef # ""
              /\ req.TransactionDate # "" /\ req.CallbackURL # ""
    /\ (output[1] = "error" /\ FloatLeqZero(input[2].Amount)) => output[2].type # "nil"

(***************************************************************************)
(* Claims about the calls (Spec)                                           *)
(***************************************************************************)
Op == call[1]
Returned == pc = "done"
Replied == pc = "done" /\ reply.kind = "response"
Is2xx(status) == status >= 200 /\ status <= 299
ViaMakeRequest(op) ==
    op \in {"CollectFromMobileMoney", "PayWalletToMobile", "PayWalletToBank",
            "GetCollectionStatus", "GetPaymentStatus"}
Failed == ret.err.type # "nil" /\ ret.resp[1] = "nil"
NothingSent == wire = <<>>

\* the data model's collection request: every field set, amount > 0, a
\* supported channel
CollectionWellFormed(req) ==
    /\ req.MSISDN # "" /\ req.Narration # "" /\ req.TransactionRef # ""
    /\ req.TransactionDate # "" /\ req.CallbackURL # ""
    /\ FloatGtZero(req.Amount)
    /\ req.Channel \in {"TZ-TIGO-C2B", "TZ-AIRTEL-C2B", "TZ-HALOTEL-C2B"}

\* the data model's disbursement request
WalletWellFormed(req) ==
    /\ req.CountryCode = "TZ" /\ req.CurrencyCode = "TZS"
    /\ req.ServiceCode \in {"TZ-TIGO-B2C", "TZ-AIRTEL-B2C", "TZ-BANK-B2C"}
    /\ FloatGtZero(req.Amount)
    /\ req.AccountNo # "" /\ req.MSISDN # "" /\ req.Narration # ""
    /\ req.RecipientNames # "" /\ req.TransactionRef # ""
    /\ req.TransactionDate # "" /\ req.CallbackURL # ""

\* a bank payout: the service code is the bank's, or left empty
BankWellFormed(req) ==
    /\ req.ServiceCode \in {"", "TZ-BANK-B2C"}
    /\ WalletWellFormed([req EXCEPT !.ServiceCode = "TZ-BANK-B2C"])

CallWellFormed ==
    CASE Op = "CollectFromMobileMoney" -> CollectionWellFormed(call[2])
      [] Op = "PayWalletToMobile" -> WalletWellFormed(call[2])
      [] Op = "PayWalletToBank" -> BankWellFormed(call[2])
      [] OTHER -> TRUE

\* the validation the call runs on its request returns an error
ValidationFails ==
    CASE Op = "CollectFromMobileMoney" ->
            validateMobileMoneyRequest(call[2]).type # "nil"
      [] Op = "PayWalletToMobile" ->
            validateWalletToMobileRequest(call[2]).type # "nil"
      [] Op = "PayWalletToBank" ->
            \/ bankServiceCode(call[2]).ServiceCode # ServiceTZBankB2C
            \/ validateWalletToMobileRequest(bankServiceCode(call[2])).type # "nil"
      [] OTHER -> FALSE

\* C1: a collect or disburse call whose request fails validation (a channel,
\* service, country or currency code outside its whitelist, among others)
\* returns an error and sends nothing; a request is on the wire only when it
\* passed validation.
C1_InvalidNeverSent ==
    Op \in {"CollectFromMobileMoney", "PayWalletToMobile", "PayWalletToBank"} =>
        /\ ValidationFails => (Returned /\ NothingSent /\ Failed)
        /\ ~CallWellFormed => (Returned /\ NothingSent /\ Failed)
        /\ ~NothingSent => (~ValidationFails /\ CallWellFormed)

C1_Witness ==
    /\ Op = "CollectFromMobileMoney"
    /\ CollectionWellFormed([call[2] EXCEPT !.Channel = "TZ-TIGO-C2B"])
    /\ call[2].Channel = "TZ-TIGO-B2C"
    /\ Returned /\ NothingSent /\ Failed

\* the reply decodes into the response shape with a failing status code
BodyRejects(body) ==
    /\ UnmarshalCollectionResponse(body).ok
    /\ UnmarshalCollectionResponse(body).val.StatusCode
          \in {"PAYMENT_REJECTED", "GENERIC_ERROR"}

IsBusinessError(err, body) ==
    /\ err.type = "Error"
    /\ err.Code = UnmarshalCollectionResponse(body).val.StatusCode

\* C2: through makeRequest, a 2xx reply whose body carries PAYMENT_REJECTED or
\* GENERIC_ERROR comes back as a business error with that status code, never
\* as a success.  (It does with status 200; with 201..299 the body is not
\* decoded as a response and the error is the one of a status that is not OK.)
C2_Rejected2xxIsBusinessError ==
    (Replied /\ ViaMakeRequest(Op) /\ Is2xx(reply.status) /\ BodyRejects(reply.body))
        => IsBusinessError(ret.err, reply.body)

\* the error of a status that is not OK: an APIError or "unexpected status code"
IsStatusError(err) ==
    err.type = "APIError" \/ (err.type = "fmt" /\ err.msg = "unexpected status code: ")

\* the call succeeded with the decoded body
SucceededWithBody ==
    /\ ret.err.type = "nil"
    /\ CASE ViaMakeRequest(Op) ->
              ret.resp = <<"collection", UnmarshalCollectionResponse(reply.body).val>>
         [] IsBalance(Op) -> ret.resp = <<"balance", UnmarshalBalance(reply.body).val>>
         [] OTHER -> ret.resp = <<"entries", UnmarshalEntries(reply.body).val>>

\* the body decodes into the shape the operation expects, and is no rejection
BodyAccepts(op, body) ==
    CASE ViaMakeRequest(op) ->
            UnmarshalCollectionResponse(body).ok /\ ~BodyRejects(body)
      [] IsBalance(op) -> UnmarshalBalance(body).ok
      [] OTHER -> UnmarshalEntries(body).ok

\* C3: a reply with any status in 200..299 whose body decodes with a status
\* code other than PAYMENT_REJECTED and GENERIC_ERROR is returned as a
\* success, and no 2xx reply is classified as a transport or API error.  (So
\* it is with status 200; a reply with status 201..299 is classified as one.)
C3_Any2xxIsSuccess ==
    (Replied /\ Is2xx(reply.status))
        => /\ ~IsStatusError(ret.err)
           /\ BodyAccepts(Op, reply.body) => SucceededWithBody

\* C4: a reply with a status outside 200..299 returns no response value; when
\* the body decodes as an ApiError envelope with a non-zero statusCode the
\* error is that ApiError, statusCode and reason unchanged, and otherwise it
\* is the generic error with the raw status and body.
C4_Non2xxIsError ==
    (Replied /\ ~Is2xx(reply.status))
        => /\ ret.resp[1] = "nil"
           /\ IF UnmarshalAPIError(reply.body).ok
                 /\ UnmarshalAPIError(reply.body).val.StatusCode # 0
              THEN /\ ret.err.type = "APIError"
                   /\ ret.err.StatusCode = UnmarshalAPIError(reply.body).val.StatusCode
                   /\ ret.err.Reason = UnmarshalAPIError(reply.body).val.Reason
              ELSE /\ ret.err.type = "fmt"
                   /\ ret.err.msg = "unexpected status code: "
                   /\ ret.err.httpStatus = reply.status
                   /\ ret.err.httpBody = reply.body
           /\ reply.body = JObj(<<<<"statusCode", JNum(<<"4", "0", "1">>)>>,
                                 <<"reason", JStr("INVALID_CREDENTIALS")>>>>)
                => /\ ret.err.type = "APIError"
                   /\ ret.err.StatusCode = 401
                   /\ ret.err.Reason = "INVALID_CREDENTIALS"

C4_Witness ==
    /\ Replied /\ reply.status = 401
    /\ Op = "PayWalletToMobile"
    /\ ret.err.type = "APIError"
    /\ ret.err.StatusCode = 401
    /\ ret.err.Reason = "INVALID_CREDENTIALS"
    /\ ret.resp[1] = "nil"

\* the object o gives the field key (its name written in any case), and
\* gives it values of the kind tag only
HasField(o, key, tag) ==
    /\ FieldValues(o, key) # <<>>
    /\ \A i \in DOMAIN FieldValues(o, key) : FieldValues(o, key)[i][1] = tag

\* the body has the expected shape: an object with the expected fields
MatchesShape(op, body) ==
    /\ body[1] = "obj"
    /\ IF IsBalance(op)
       THEN /\ HasField(body[2], "availableBalance", "num")
            /\ HasField(body[2], "currentBalance", "num")
            /\ HasField(body[2], "accountNo", "str")
            /\ HasField(body[2], "accountStatus", "str")
            /\ HasField(body[2], "accountName", "str")
       ELSE /\ HasField(body[2], "statusCode", "str")
            /\ HasField(body[2], "transactionRef", "str")
            /\ HasField(body[2], "transactionId", "str")

\* C5: a 2xx response body or a webhook body that does not match the
\* expected shape (no JSON, or a JSON value without the expected fields, such
\* as an empty object) is an error, never a successful result.
C5_ShapeMismatchIsError ==
    /\ (Replied /\ Is2xx(reply.status) /\ (ViaMakeRequest(Op) \/ IsBalance(Op))
            /\ ~MatchesShape(Op, reply.body))
          => ret.err.type # "nil"
    /\ (Returned /\ Op = "ValidateWebhook" /\ ~MatchesShape(Op, call[2]))
          => ret.err.type # "nil"

\* the statement's entries are well-formed, but for the credited amounts
OnlyAmountsMalformed(body) ==
    /\ body[1] = "arr"
    /\ \A i \in 1..Len(body[2]) : \E a \in AmountValues : body[2][i] = EntryBody(a)
    /\ \E i \in 1..Len(body[2]) :
          \E a \in MalformedAmountValues : body[2][i] = EntryBody(a)

\* C7: a 200 reply to a statement call in which some entries have a malformed
\* credited amount (wrong type, non-numeric string, null, empty string) and
\* everything else is well-formed is returned in full and without error,
\* the malformed amounts absent.
C7_MalformedAmountAbsent ==
    (Replied /\ IsStatement(Op) /\ reply.status = 200 /\ OnlyAmountsMalformed(reply.body))
        => /\ ret.err.type = "nil"
           /\ ret.resp[1] = "entries"
           /\ Len(ret.resp[2]) = Len(reply.body[2])
           /\ \A i \in 1..Len(reply.body[2]) :
                 (\E a \in MalformedAmountValues : reply.body[2][i] = EntryBody(a))
                    => ret.resp[2][i].AmountCredited = Absent

\* the call is made with a context, cancelled or not (nil is none)
HasContext == call[3] # ContextNil

\* C10: a status query with transactionRef and transactionId both empty
\* returns an error and sends nothing; with one of them set the request is
\* sent.  (The call is one made with a context: without one no request can
\* be created, and the call returns that error and sends nothing.)
C10_StatusQueryNeedsIdentifier ==
    (Op \in {"GetCollectionStatus", "GetPaymentStatus"}) =>
        IF call[2].TransactionRef = "" /\ call[2].TransactionID = ""
        THEN /\ Returned /\ NothingSent /\ Failed
             /\ ret.err = Errorf("either transactionRef or transactionId is required")
        ELSE IF HasContext
        THEN /\ Len(wire) = 1
             /\ wire[1].body = MarshalStatusRequest(call[2]).json
        ELSE /\ Returned /\ NothingSent /\ Failed
             /\ ret.err = Errorf("failed to create request: ")

C10_Witness ==
    /\ Op = "GetPaymentStatus"
    /\ call[2].TransactionRef = "" /\ call[2].TransactionID = ""
    /\ Returned /\ NothingSent /\ Failed

\* the service code in the body of a request on the wire
SentServiceCode(r) == Member(r.body[2], "serviceCode")

\* C11: PayWalletToBank with an empty service code sends the request with
\* service code TZ-BANK-B2C; with an explicit service code other than
\* TZ-BANK-B2C (TZ-TIGO-B2C and TZ-AIRTEL-B2C included) it returns an error
\* and sends nothing; whatever it sends carries TZ-BANK-B2C.
C11_BankServiceCodePinned ==
    Op = "PayWalletToBank" =>
        /\ call[2].ServiceCode \notin {"", "TZ-BANK-B2C"}
              => (Returned /\ NothingSent /\ Failed)
        /\ (call[2].ServiceCode = "" /\ BankWellFormed(call[2])
                /\ IsFinite(call[2].Amount) /\ HasContext)
              => (Len(wire) = 1 /\ SentServiceCode(wire[1]) = JStr("TZ-BANK-B2C"))
        /\ \A i \in 1..Len(wire) : SentServiceCode(wire[i]) = JStr("TZ-BANK-B2C")

C11_Witness ==
    /\ Op = "PayWalletToBank"
    /\ call[2].ServiceCode = ""
    /\ Len(wire) = 1
    /\ SentServiceCode(wire[1]) = JStr("TZ-BANK-B2C")

\* the operations that send a request
SendingOps ==
    {"CollectFromMobileMoney", "PayWalletToMobile", "PayWalletToBank",
     "GetCollectionStatus", "GetPaymentStatus", "GetCollectionBalance",
     "GetMainBalance", "GetCollectionStatement", "GetMainStatement"}

\* the header of r has the four lines, with the credentials of config
HasRequiredHeaders(r, config) ==
    /\ DOMAIN r.header = {"ContentType", "xAccountID", "xSecretKey", "xRequestID"}
    /\ r.header.ContentType = "application/json"
    /\ r.header.xAccountID = config.AccountID
    /\ r.header.xSecretKey = config.SecretKey
    /\ r.header.xRequestID[1] = "req_"

\* C12: every request an operation sends carries Content-Type:
\* application/json, x-account-id, x-secret-key and x-request-id, the account
\* id and the secret key being those the client was constructed with.
C12_HeadersOnEveryRequest ==
    \A i \in 1..Len(wire) :
        /\ Op \in SendingOps
        /\ \A config \in Configs :
              client = NewClient(config) => HasRequiredHeaders(wire[i], config)

C12_Witness ==
    /\ Op = "GetMainBalance"
    /\ Len(wire) = 1
    /\ wire[1].header.xAccountID = "acct-1"
    /\ wire[1].header.xSecretKey = "secret-1"

\* C14: no error is retried: a call sends at most one request, whatever comes
\* of it (a transport failure, a status that is not OK, a body that does not
\* decode, a business rejection, a cancellation); the steps that end the
\* waits (for the response, for its body) go on to reading the body or
\* return to the caller, and send nothing; the wire changes only as a call
\* starts or as its result is taken; and a call in flight returns.
C14_NoRetry ==
    /\ [](Len(wire) <= 1)
    /\ [][(pc \in {"inflight", "reading"} /\ pc' # pc)
            => (pc' \in {"reading", "done"} /\ wire' = wire)]_vars
    /\ [][wire' # wire => (pc = "idle" \/ pc' = "idle")]_vars
    /\ (pc \in {"inflight", "reading"}) ~> (pc = "done")

C14_Witness ==
    /\ Returned /\ Op = "GetCollectionStatement"
    /\ Len(wire) = 1
    /\ reply.kind = "transport-error"
    /\ ret.err.msg = "request failed: "

\* the error is the transport's: it carries no status and no code of the gateway
IsTransportFailure(err) ==
    /\ err.type = "fmt"
    /\ err.msg \in {"request failed: ", "failed to read response: "}
    /\ err.StatusCode = 0 /\ err.Code = "" /\ err.Reason = ""

\* the context of the call is cancelled, before the call or while it waits
IsCancelled == call[3] \in {ContextCancelled, ContextCancelledLate}

\* C15 as it holds: a call whose context is cancelled before it is made
\* returns an error and no response value: if the request is handed to
\* httpClient.Do, Do ends by returning "request failed".  A cancelled call
\* that returns without a response returns an error, the transport's, which
\* says nothing of what the gateway did with the request; and every
\* cancelled call returns.  (A call cancelled while it waits may still
\* return what the response gives: the response may win over the
\* cancellation in httpClient.Do, and a body that has arrived is read.)
C15_CancelledBeforeCallFails ==
    /\ [][(pc = "inflight" /\ call[3] = ContextCancelled /\ pc' # "inflight")
            => /\ pc' = "done"
               /\ reply'.kind = "transport-error"
               /\ ret'.resp = NilResp
               /\ ret'.err = Errorf("request failed: ")]_vars
    /\ []((Returned /\ call[3] = ContextCancelled)
            => (Failed /\ reply.kind # "response"))
    /\ []((Returned /\ IsCancelled /\ reply.kind # "response") => Failed)
    /\ []((Returned /\ IsCancelled
              /\ reply.kind \in {"transport-error", "read-error"})
            => IsTransportFailure(ret.err))
    /\ (pc \in {"inflight", "reading"} /\ IsCancelled) ~> Returned

\* C15 as claimed: a call whose context is cancelled, before it is sent or
\* while it is in flight, returns an error, with no response value and never
\* a success; the error of a request that was sent is the transport's and
\* says nothing of what the gateway did with it; and the cancelled call does
\* return.
C15_CancelledCallFails ==
    /\ []((Returned /\ IsCancelled) => Failed)
    /\ []((Returned /\ IsCancelled /\ ~NothingSent)
            => (IsTransportFailure(ret.err) /\ reply.kind # "response"))
    /\ (pc \in {"inflight", "reading"} /\ IsCancelled) ~> Returned

C15_Witness ==
    /\ Returned /\ Op = "GetCollectionBalance"
    /\ call[3] = ContextCancelled
    /\ Len(wire) = 1
    /\ Failed
    /\ ret.err.msg = "request failed: "

\* the path each operation posts to
PathOf(op) ==
    CASE op = "CollectFromMobileMoney" -> "/tembo/v1/collection"
      [] op = "GetCollectionStatus" -> "/tembo/v1/collection/status"
      [] op = "GetCollectionBalance" -> "/tembo/v1/wallet/collection-balance"
      [] op = "GetCollectionStatement" -> "/tembo/v1/wallet/collection-statement"
      [] op = "GetMainBalance" -> "/tembo/v1/wallet/main-balance"
      [] op = "GetMainStatement" -> "/tembo/v1/wallet/main-statement"
      [] op = "PayWalletToMobile" -> "/tembo/v1/payment/wallet-to-mobile"
      [] op = "PayWalletToBank" -> "/tembo/v1/payment/wallet-to-mobile"
      [] op = "GetPaymentStatus" -> "/tembo/v1/payment/status"

\* the body each operation sends: none for the balances, else the request in JSON
BodyOf(op, req) ==
    CASE IsBalance(op) -> NoBody
      [] op = "CollectFromMobileMoney" -> MarshalCollectionRequest(req).json
      [] op = "PayWalletToMobile" -> MarshalWalletRequest(req).json
      [] op = "PayWalletToBank" ->
            MarshalWalletRequest([req EXCEPT !.ServiceCode = "TZ-BANK-B2C"]).json
      [] op \in {"GetCollectionStatus", "GetPaymentStatus"} ->
            MarshalStatusRequest(req).json
      [] IsStatement(op) -> MarshalStatementRequest(req).json

\* C17: every operation posts to the base URL followed by its own path; the
\* balance queries send no body and the others the request in JSON; the base
\* URL is the production host when the environment is Production and the
\* sandbox host otherwise.
C17_EndpointsAndBodies ==
    /\ \A config \in Configs :
          client = NewClient(config) =>
              client.baseURL = IF config.Environmen = "production"
                               THEN "https://api.temboplus.com"
                               ELSE "https://sandbox.temboplus.com"
    /\ \A i \in 1..Len(wire) :
          /\ wire[i].method = "POST"
          /\ wire[i].url = client.baseURL \o PathOf(Op)
          /\ wire[i].body = BodyOf(Op, call[2])
          /\ (wire[i].body = NoBody) <=> IsBalance(Op)

C17_Witness ==
    /\ Op = "GetPaymentStatus"
    /\ Len(wire) = 1
    /\ wire[1].method = "POST"
    /\ wire[1].url = "https://api.temboplus.com" \o "/tembo/v1/payment/status"
    /\ wire[1].body = JObj(<<<<"transactionId", JStr("TXN-1")>>>>)

WebhookKeys == {"statusCode", "transactionRef", "transactionId"}

\* the body is JSON for the shape of a WebhookPayload: an object whose status
\* code, transaction reference and transaction id, where it has them, are
\* strings (or null).  The body null reads as the payload with nothing set.
IsWebhookJSON(body) ==
    \/ body[1] = "null"
    \/ /\ body[1] = "obj"
       /\ \A k \in WebhookKeys :
             \A i \in DOMAIN FieldValues(body[2], k) :
                 FieldValues(body[2], k)[i][1] \in {"str", "null"}

\* the last string among the values vs, empty when there is none
LastString(vs) ==
    IF \E i \in DOMAIN vs : vs[i][1] = "str"
    THEN vs[CHOOSE i \in DOMAIN vs :
                vs[i][1] = "str" /\ \A j \in DOMAIN vs : vs[j][1] = "str" => j <= i][2]
    ELSE ""

\* the string the body gives for the key k, empty when it gives none
Received(body, k) ==
    IF body[1] = "obj" THEN LastString(FieldValues(body[2], k)) ELSE ""

\* C18: ValidateWebhook returns a decode error for a body that is not JSON
\* for the shape of a WebhookPayload, a validation error for a payload whose
\* transaction reference or transaction id is empty, and otherwise the
\* payload with its three fields as received; it returns either a payload
\* or an error, never both and never neither.
C18_WebhookValidated ==
    (Returned /\ Op = "ValidateWebhook") =>
        /\ (ret.resp[1] = "nil") <=> (ret.err.type # "nil")
        /\ IF ~IsWebhookJSON(call[2])
           THEN ret.err.msg = "failed to parse webhook payload: "
           ELSE IF Received(call[2], "transactionRef") = ""
                   \/ Received(call[2], "transactionId") = ""
           THEN ret.err.msg = "invalid webhook payload: missing required fields"
           ELSE /\ ret.err.type = "nil"
                /\ ret.resp = <<"webhook",
                                [StatusCode |-> Received(call[2], "statusCode"),
                                 TransactionRef |-> Received(call[2], "transactionRef"),
                                 TransactionID |-> Received(call[2], "transactionId")]>>

C18_Witness ==
    /\ Returned /\ Op = "ValidateWebhook"
    /\ call[2] = ResponseBody("PAYMENT_ACCEPTED")
    /\ ret.err.type = "nil"
    /\ ret.resp[2].StatusCode = "PAYMENT_ACCEPTED"
    /\ ret.resp[2].TransactionRef = "REF-1"
    /\ ret.resp[2].TransactionID = "TXN-1"

\* C19: IsSuccessfulWebhook is true exactly for the status PAYMENT_ACCEPTED
\* and IsFailedWebhook exactly for PAYMENT_REJECTED and GENERIC_ERROR; no
\* payload is both, a payload with PENDING_ACK or an unknown status is
\* neither, and the helpers leave the payload as it was.
C19_WebhookClassified ==
    output[1] = "classified" =>
        LET given == input[2]
            res == output[2]
        IN  /\ res.successful # <<>> =>
                  (res.successful[1] <=> given.StatusCode = "PAYMENT_ACCEPTED")
            /\ res.failed # <<>> =>
                  (res.failed[1] <=>
                      given.StatusCode \in {"PAYMENT_REJECTED", "GENERIC_ERROR"})
            /\ ~(res.successful = <<TRUE>> /\ res.failed = <<TRUE>>)
            /\ given.StatusCode \notin {"PAYMENT_ACCEPTED", "PAYMENT_REJECTED",
                                         "GENERIC_ERROR"}
                  => (res.successful # <<TRUE>> /\ res.failed # <<TRUE>>)
            /\ res.webhook = given

C19_Witness ==
    /\ output[1] = "classified"
    /\ input[2].StatusCode = "GENERIC_ERROR"
    /\ output[2].successful = <<FALSE>>
    /\ output[2].failed = <<TRUE>>

\* the string the body of the request r gives for key, empty when it gives none
BodyText(r, key) ==
    IF r.body[1] = "obj" /\ Has(r.body[2], key) /\ Member(r.body[2], key)[1] = "str"
    THEN Member(r.body[2], key)[2]
    ELSE ""

\* C20 as claimed: every request an operation sends carries a non-empty
\* transaction reference and a non-empty callback URL in its body.
C20_EveryRequestHasRefAndCallback ==
    \A i \in 1..Len(wire) :
        /\ BodyText(wire[i], "transactionRef") # ""
        /\ BodyText(wire[i], "callbackUrl") # ""

\* C20 amended: every collection and disbursement request sent carries a
\* non-empty transaction reference and a non-empty callback URL; a status
\* query carries a transaction reference or a transaction id (one of them
\* may be missing) and no callback URL; a statement query carries neither,
\* and a balance query has no body.
C20_PaymentsHaveRefAndCallback ==
    \A i \in 1..Len(wire) :
        /\ Op \in {"CollectFromMobileMoney", "PayWalletToMobile", "PayWalletToBank"}
              => /\ BodyText(wire[i], "transactionRef") # ""
                 /\ BodyText(wire[i], "callbackUrl") # ""
        /\ Op \in {"GetCollectionStatus", "GetPaymentStatus"}
              => /\ \/ BodyText(wire[i], "transactionRef") # ""
                    \/ BodyText(wire[i], "transactionId") # ""
                 /\ ~Has(wire[i].body[2], "callbackUrl")
        /\ IsStatement(Op)
              => /\ ~Has(wire[i].body[2], "transactionRef")
                 /\ ~Has(wire[i].body[2], "callbackUrl")
        /\ IsBalance(Op) => wire[i].body = NoBody

C20_Witness ==
    /\ Op = "CollectFromMobileMoney"
    /\ Len(wire) = 1
    /\ BodyText(wire[1], "transactionRef") = "x"
    /\ BodyText(wire[1], "callbackUrl") = "x"

(***************************************************************************)
(* Claims about two goroutines calling one client (SpecConcurrent)         *)
(***************************************************************************)
\* the x-request-id values of the requests a call has sent
RequestIDs(c) == {c.wire[i].header.xRequestID : i \in 1..Len(c.wire)}

\* C13: the x-request-id of a request is unique to its call: two calls, made
\* concurrently or one after the other without the clock advancing, never
\* send the same value.
C13_RequestIDsUnique ==
    Shared => RequestIDs(Running) \cap RequestIDs(Parked) = {}

\* the error the arguments of a call are refused with, nil when they are not
Rejection(op, req) ==
    CASE op = "CollectFromMobileMoney" ->
            IF validateMobileMoneyRequest(req).type # "nil"
            THEN validateMobileMoneyRequest(req)
            ELSE IF ~MarshalCollectionRequest(req).ok
            THEN Errorf("failed to marshal request: ") ELSE NilErr
      [] op = "PayWalletToMobile" ->
            IF validateWalletToMobileRequest(req).type # "nil"
            THEN validateWalletToMobileRequest(req)
            ELSE IF ~MarshalWalletRequest(req).ok
            THEN Errorf("failed to marshal request: ") ELSE NilErr
      [] op = "PayWalletToBank" ->
            IF req.ServiceCode \notin {"", ServiceTZBankB2C}
            THEN Errorf("serviceCode must be %s for bank payouts")
            ELSE IF validateWalletToMobileRequest(bankServiceCode(req)).type # "nil"
            THEN validateWalletToMobileRequest(bankServiceCode(req))
            ELSE IF ~MarshalWalletRequest(bankServiceCode(req)).ok
            THEN Errorf("failed to marshal request: ") ELSE NilErr
      [] op \in {"GetCollectionStatus", "GetPaymentStatus"} ->
            IF req.TransactionRef = "" /\ req.TransactionID = ""
            THEN Errorf("either transactionRef or transactionId is required")
            ELSE NilErr
      [] OTHER -> NilErr

\* the error a call returns before it sends anything, nil when it sends
Refusal(op, req, ctx) ==
    IF Rejection(op, req) # NilErr THEN Rejection(op, req)
    ELSE IF ctx = ContextNil THEN Errorf("failed to create request: ")
    ELSE NilErr

\* the result of the call c is the one its own arguments and the reply to
\* its own request give
OwnOutcome(c) ==
    c.pc = "done" =>
        CASE c.reply.kind = "response" ->
                /\ Refusal(c.call[1], c.call[2], c.call[3]) = NilErr
                /\ c.ret = ReplyResult(c.call[1], c.reply.status, c.reply.body)
          [] c.reply.kind = "transport-error" ->
                /\ Refusal(c.call[1], c.call[2], c.call[3]) = NilErr
                /\ c.ret = [resp |-> NilResp, err |-> Errorf("request failed: ")]
          [] c.reply.kind = "read-error" ->
                /\ Refusal(c.call[1], c.call[2], c.call[3]) = NilErr
                /\ c.ret = [resp |-> NilResp,
                            err |-> Errorf("failed to read response: ")]
          [] OTHER ->
                IF c.call[1] = "ValidateWebhook"
                THEN c.ret = ValidateWebhookResult(c.call[2])
                ELSE /\ Refusal(c.call[1], c.call[2], c.call[3]) # NilErr
                     /\ c.ret = [resp |-> NilResp,
                                 err |-> Refusal(c.call[1], c.call[2], c.call[3])]

\* C16: the configuration held by the client (base URL, account id, secret
\* key, HTTP client) is never modified by an operation, under any
\* interleaving of two concurrent calls; a step of one call leaves the other
\* call as it was, and the result of each call is the one its own request
\* and the reply to it give.
C16_ClientImmutableCallsIndependent ==
    /\ [](Shared => OwnOutcome(Running) /\ OwnOutcome(Parked))
    /\ [][client' = client]_vars
    /\ [][Shared => \/ Parked' = Parked
                    \/ Parked' = Running /\ Running' = Parked]_vars

\* both calls are over, on different operations with different results,
\* over the one client
C16_Witness ==
    /\ Shared
    /\ pc = "done" /\ Parked.pc = "done"
    /\ reply.kind = "response" /\ Parked.reply.kind = "response"
    /\ call[1] = "CollectFromMobileMoney" /\ Parked.call[1] = "GetMainBalance"
    /\ ret.err = NilErr /\ Parked.ret.err # NilErr
    /\ client.secretKey = "secret-1"

(***************************************************************************)
(* Claims about the returned values                                        *)
(***************************************************************************)
\* which of the five failures the call c ended with: its request was refused
\* before anything was sent, the transport failed, the gateway answered with
\* a status that is not OK, the body could not be decoded, or the decoded
\* body reports a rejection.  (A request that could not be created for want
\* of a context is none of the five.)
FailureKind(c) ==
    CASE c.reply.kind \in {"transport-error", "read-error"} -> "transport"
      [] c.reply.kind = "response" /\ c.reply.status # 200 -> "api"
      [] c.reply.kind = "response" /\ c.reply.status = 200 ->
            IF ViaMakeRequest(c.call[1]) /\ UnmarshalCollectionResponse(c.reply.body).ok
            THEN "business" ELSE "decode"
      [] OTHER ->
            IF c.call[1] = "ValidateWebhook" /\ ~UnmarshalWebhookPayload(c.call[2]).ok
            THEN "decode"
            ELSE IF c.call[3] = ContextNil /\ Rejection(c.call[1], c.call[2]) = NilErr
            THEN "creation"
            ELSE "validation"

EndedInError(c) == c.pc = "done" /\ c.ret.err.type # "nil"

\* C21: the five kinds of failure (validation, transport, API, business,
\* decode) are pairwise distinguishable from the kind of the returned error
\* value alone: two calls that fail in different ways never return errors of
\* the same kind.
C21_ErrorKindsDistinct ==
    (Shared /\ EndedInError(Running) /\ EndedInError(Parked)
        /\ "creation" \notin {FailureKind(Running), FailureKind(Parked)}
        /\ FailureKind(Running) # FailureKind(Parked))
        => TypeOfError(ret.err) # TypeOfError(Parked.ret.err)

HasResponse == ret.resp[1] # "nil"
HasError == ret.err.type # "nil"

\* the gateway answered 200 with a body that decodes and reports a rejection
RejectedAt200 == Replied /\ reply.status = 200 /\ BodyRejects(reply.body)

\* the gateway answered 200 with a body that decodes and reports no rejection
AcceptedAt200 ==
    /\ Replied /\ reply.status = 200
    /\ UnmarshalCollectionResponse(reply.body).ok
    /\ ~BodyRejects(reply.body)

\* C24: an operation routed through makeRequest returns one of three shapes:
\* (response, nil) on success; (response, business error) exactly when the
\* status is 200 and the decoded status code is PAYMENT_REJECTED or
\* GENERIC_ERROR, the response's status code then being the error's; and
\* (nil, error) for every validation, transport, API and decode failure.
\* (nil, nil) is never returned.
C24_ResultShapes ==
    (Returned /\ ViaMakeRequest(Op)) =>
        /\ HasResponse \/ HasError
        /\ (HasResponse /\ ~HasError) <=> AcceptedAt200
        /\ (HasResponse /\ HasError) <=> RejectedAt200
        /\ RejectedAt200 =>
              /\ ret.err.type = "Error"
              /\ ret.err.Code \in {StatusPaymentRejected, StatusGenericError}
              /\ ret.resp[2].StatusCode = ret.err.Code
        /\ (~HasResponse /\ HasError) <=> (~AcceptedAt200 /\ ~RejectedAt200)
        /\ (~HasResponse /\ HasError) => ret.err.type \in {"fmt", "APIError"}

\* a disbursement answered 200 with GENERIC_ERROR came back as the response
\* together with the business error
C24_Witness ==
    /\ Returned /\ Op = "PayWalletToMobile"
    /\ reply.kind = "response" /\ reply.status = 200
    /\ HasResponse /\ ret.err.type = "Error"
    /\ ret.err.Code = StatusGenericError
    /\ ret.resp[2].StatusCode = StatusGenericError

(***************************************************************************)
(* Claims about the round trip (SpecRoundTrip)                             *)
(***************************************************************************)
\* no text field of the request holds bytes that are not UTF-8
TextsAreUTF8(req) ==
    \A f \in {"MSISDN", "Channel", "Narration", "TransactionRef",
              "TransactionDate", "CallbackURL"} : req[f] # InvalidUTF8Text

\* C22 as claimed: every MobileMoneyCollectionRequest is serialised, and
\* decoding the result gives back its seven fields unchanged, empty strings
\* included.
C22_RoundTripEveryRequest ==
    /\ output[1] = "marshalled" => output[2].ok
    /\ output[1] = "unmarshalled" => (output[2].ok /\ output[2].val = input[2])

\* C22 amended: a MobileMoneyCollectionRequest is serialised exactly when its
\* amount is finite (json.Marshal returns an error for NaN and the
\* infinities); decoding the result never fails, and gives back the seven
\* fields unchanged, empty strings included, when every text field is valid
\* UTF-8; a text that is not comes back with U+FFFD in place of its invalid
\* bytes, the other fields unchanged.
C22_RoundTripFiniteUTF8 ==
    /\ output[1] = "marshalled" => (output[2].ok <=> IsFinite(input[2].Amount))
    /\ output[1] = "unmarshalled" =>
          /\ output[2].ok
          /\ TextsAreUTF8(input[2]) => output[2].val = input[2]
          /\ output[2].val.Amount = input[2].Amount
          /\ \A f \in {"MSISDN", "Channel", "Narration", "TransactionRef",
                       "TransactionDate", "CallbackURL"} :
                output[2].val[f] =
                    IF input[2][f] = InvalidUTF8Text THEN ReplacementText
                    ELSE input[2][f]

\* a request whose texts json.Marshal wrote with escapes, with the smallest
\* denormal as its amount and with empty strings, has made the round trip
C22_Witness ==
    /\ output[1] = "unmarshalled"
    /\ input[2].Amount = Dec(5, -324)
    /\ input[2].MSISDN = "a\"b\\c<d>&e"
    /\ Len(EncodeString(input[2].MSISDN)) > Len(input[2].MSISDN) + 2
    /\ input[2].Narration = "x\"y"
    /\ input[2].TransactionRef = "" /\ input[2].TransactionDate = ""
    /\ input[2].CallbackURL # ""
    /\ output[2].val = input[2]

(***************************************************************************)
(* Claims about the transaction references (SpecRefs)                      *)
(***************************************************************************)
\* C23: GenerateTransactionRef returns a unique reference: two calls with the
\* same prefix, two calls within one second of the clock included (two
\* requests built in a row by BuildCollectionRequest, a loop that goes on
\* without sleeping), return different references.
C23_TransactionRefsUnique ==
    (output[1] = "refs" /\ Len(output[2]) = 2
        /\ output[2][1].ref[1] = output[2][2].ref[1])
        => output[2][1].ref # output[2][2].ref

====
